---------------------------- MODULE Spec2Model ----------------------------
(***************************************************************************)
(* Model of the cinodefs analyzer (internal/cinodefs_analyzer/analyzer.go). *)
(*                                                                         *)
(* Every string of the program (reference texts, MIME types, names, blob   *)
(* content) is a sequence of bytes 0..255, as a Go string or []byte is.    *)
(* Error messages are TLA+ strings, "" being the empty Go string.          *)
(* A Go pointer that may be nil is a sequence of length 0 (nil) or 1.      *)
(***************************************************************************)
EXTENDS Integers, Sequences, FiniteSets, TLC

(***************************************************************************)
(* Bytes                                                                   *)
(***************************************************************************)
Min(a, b) == IF a < b THEN a ELSE b

\* the bit of weight w of the exclusive or of two bytes
XorBit(a, b, w) == (((a \div w) + (b \div w)) % 2) * w

\* bitwise exclusive or of two bytes
Xor(a, b) ==
    XorBit(a, b, 1) + XorBit(a, b, 2) + XorBit(a, b, 4) + XorBit(a, b, 8)
    + XorBit(a, b, 16) + XorBit(a, b, 32) + XorBit(a, b, 64) + XorBit(a, b, 128)

RECURSIVE XorRange(_, _, _)
\* exclusive or of the bytes lo..hi of s, by halves
XorRange(s, lo, hi) ==
    IF lo > hi THEN 0
    ELSE IF lo = hi THEN s[lo]
    ELSE Xor(XorRange(s, lo, (lo + hi) \div 2), XorRange(s, (lo + hi) \div 2 + 1, hi))

XorAll(s) == XorRange(s, 1, Len(s))

RECURSIVE ConcatRange(_, _, _)
\* concatenation of the sequences lo..hi of ss, by halves
ConcatRange(ss, lo, hi) ==
    IF lo > hi THEN <<>>
    ELSE IF lo = hi THEN ss[lo]
    ELSE ConcatRange(ss, lo, (lo + hi) \div 2) \o ConcatRange(ss, (lo + hi) \div 2 + 1, hi)

\* concatenation of a sequence of sequences
Concat(ss) == ConcatRange(ss, 1, Len(ss))

Repeat(x, n) == [i \in 1..n |-> x]

HasPrefix(s, p) == Len(s) >= Len(p) /\ SubSeq(s, 1, Len(p)) = p

\* number of leading elements of s equal to x
CountLeading(s, x) ==
    IF \A i \in 1..Len(s) : s[i] = x THEN Len(s)
    ELSE (CHOOSE i \in 1..Len(s) : s[i] # x /\ \A j \in 1..(i - 1) : s[j] = x) - 1

\* big.Int.Bytes(): the big-endian magnitude with no leading zero byte
StripZeros(s) == SubSeq(s, CountLeading(s, 0) + 1, Len(s))

(***************************************************************************)
(* base58 (github.com/jbenet/go-base58), over big-endian byte sequences in *)
(* place of big.Int: no number exceeds 58 * 256.  The loops over the bytes *)
(* of a number are unfolded by halves.                                     *)
(***************************************************************************)
BTCAlphabet ==
    \* "123456789ABCDEFGHJKLMNPQRSTUVWXYZabcdefghijkmnopqrstuvwxyz"
    [i \in 1..9 |-> 48 + i] \o
    [i \in 1..8 |-> 64 + i] \o [i \in 1..5 |-> 73 + i] \o [i \in 1..11 |-> 79 + i] \o
    [i \in 1..11 |-> 96 + i] \o [i \in 1..14 |-> 108 + i]

Radix == Len(BTCAlphabet)

\* strings.IndexAny(alphabet, string(c)): the index from 0, or -1
AlphabetIndex(c) ==
    IF \E i \in 1..Radix : BTCAlphabet[i] = c
    THEN (CHOOSE i \in 1..Radix : BTCAlphabet[i] = c) - 1
    ELSE -1

\* the bytes of the less significant half put before those of the other
MulAddJoin(low, high) == <<low[1] \o high[1], high[2]>>

RECURSIVE MulAddRange(_, _, _, _, _)
RECURSIVE MulAddHigh(_, _, _, _, _)
\* the more significant half, its carry in being the carry out of the other
MulAddHigh(t, lo, hi, m, low) ==
    MulAddJoin(low, MulAddRange(t, lo, hi, m, low[2]))

\* the bytes lo..hi of t, least significant first, times m, plus the carry
\* a: <<bytes, carry out>>
MulAddRange(t, lo, hi, m, a) ==
    IF lo = hi THEN << <<(t[lo] * m + a) % 256>>, (t[lo] * m + a) \div 256 >>
    ELSE MulAddHigh(t, (lo + hi) \div 2 + 1, hi, m,
                    MulAddRange(t, lo, (lo + hi) \div 2, m, a))

\* the carry out put after the bytes
MulAddCarry(r) == r[1] \o (IF r[2] = 0 THEN <<>> ELSE <<r[2]>>)

\* the number t, least significant byte first, times m, plus a, for a < 256
MulAdd(t, m, a) ==
    IF t = <<>> THEN (IF a = 0 THEN <<>> ELSE <<a>>)
    ELSE MulAddCarry(MulAddRange(t, 1, Len(t), m, a))

\* the bytes of s in the opposite order
Reverse(s) == [i \in 1..Len(s) |-> s[Len(s) + 1 - i]]

\* the quotient of the more significant half put before that of the other
DivJoin(left, right) == <<left[1] \o right[1], right[2]>>

RECURSIVE DivRemRange(_, _, _, _, _)
RECURSIVE DivRemRight(_, _, _, _, _)
\* the less significant half, its remainder in being that of the other
DivRemRight(s, lo, hi, d, left) ==
    DivJoin(left, DivRemRange(s, lo, hi, d, left[2]))

\* long division of the bytes lo..hi of s by d with incoming remainder r:
\* <<quotient bytes, remainder>>
DivRemRange(s, lo, hi, d, r) ==
    IF lo = hi THEN << <<(r * 256 + s[lo]) \div d>>, (r * 256 + s[lo]) % d >>
    ELSE DivRemRight(s, (lo + hi) \div 2 + 1, hi, d,
                     DivRemRange(s, lo, (lo + hi) \div 2, d, r))

\* big.Int.DivMod of the big-endian base-256 number s by d
DivRem(s, d, r) ==
    IF s = <<>> THEN <<(<<>>), r>> ELSE DivRemRange(s, 1, Len(s), d, r)

\* the failed decoding: a character outside the alphabet was met
NoValue == <<FALSE, (<<>>)>>

\* one character of index idx: answer = answer * 58 + idx
Base58Step(acc, idx) ==
    IF idx = -1 THEN NoValue ELSE <<TRUE, MulAdd(acc[2], Radix, idx)>>

RECURSIVE Base58Value(_, _, _, _)
\* answer = sum of idx_i * 58^i over the characters lo..hi of b, from
\* acc = <<no character was outside the alphabet, answer so far>>, the
\* answer being kept least significant byte first
Base58Value(b, lo, hi, acc) ==
    IF ~acc[1] \/ lo > hi THEN acc
    ELSE IF lo = hi THEN Base58Step(acc, AlphabetIndex(b[lo]))
    ELSE Base58Value(b, (lo + hi) \div 2 + 1, hi,
                     Base58Value(b, lo, (lo + hi) \div 2, acc))

\* the bytes of the answer after one zero byte per leading "1"
Base58Bytes(b, v) ==
    IF ~v[1] THEN <<>>
    ELSE Repeat(0, CountLeading(b, BTCAlphabet[1])) \o StripZeros(Reverse(v[2]))

\* base58.Decode: no bytes for a text with a character outside the alphabet,
\* else the bytes of the number after one zero byte per leading "1"
Base58Decode(b) == Base58Bytes(b, Base58Value(b, 1, Len(b), <<TRUE, (<<>>)>>))

\* the digit of the remainder put before the digits found so far
DivModJoin(qr, digits) == <<StripZeros(qr[1]), <<BTCAlphabet[qr[2] + 1]>> \o digits>>

\* x.DivMod(x, bigRadix, mod) and the digit of mod, for st = <<x, digits>>
DivModStep(st) == DivModJoin(DivRem(st[1], Radix, 0), st[2])

RECURSIVE Base58Digits(_, _)
\* at most k rounds of the loop "for x > 0" from st = <<x, digits>>
Base58Digits(st, k) ==
    IF st[1] = <<>> \/ k = 0 THEN st
    ELSE IF k = 1 THEN DivModStep(st)
    ELSE Base58Digits(Base58Digits(st, k \div 2), k - k \div 2)

\* base58.Encode: the digits of the number after one "1" per leading zero
\* byte; a number of n bytes has fewer than 2 * n digits
Base58Encode(b) ==
    Repeat(BTCAlphabet[1], CountLeading(b, 0))
        \o Base58Digits(<<StripZeros(b), (<<>>)>>, 2 * Len(b))[2]

(***************************************************************************)
(* The protobuf wire format (google.golang.org/protobuf, proto.Unmarshal   *)
(* and proto.Marshal) for the messages of github.com/cinode/go             *)
(* pkg/cinodefs/protobuf:                                                  *)
(*   Entrypoint { bytes blob_name = 1; KeyInfo key_info = 2;               *)
(*                string mime_type = 3;                                    *)
(*                int64 not_valid_before_unix_micro = 4;                   *)
(*                int64 not_valid_after_unix_micro = 5; }                  *)
(*   KeyInfo    { bytes key = 1; }                                         *)
(*   Directory  { repeated Entry entries = 1; }                            *)
(*   Entry      { string name = 1; Entrypoint ep = 2; }                    *)
(* Exact on varint (0), fixed64 (1), length-delimited (2) and fixed32 (5)  *)
(* fields; the inputs of this model hold no group (3, 4) field, no varint  *)
(* above 2^28 and no multi-byte UTF-8 sequence.                            *)
(***************************************************************************)
ErrParse == "proto: cannot parse invalid wire-format data"
ErrUTF8 == "proto: string field contains invalid UTF-8"

VarintType == 0
Fixed64Type == 1
BytesType == 2
Fixed32Type == 5
MaxVarintLen == 10

\* an int64 is kept as its value where that lies between -Int64Limit and
\* Int64Limit, and as the nearer of the two ends where it lies beyond them:
\* its sign, and whether it is zero, are those of the 64-bit value
Int64Limit == 128 * 128 * 128 * 128

\* the 64-bit number with the 7-bit groups g, lowest first, read as an int64:
\* with bit 63 set (the tenth group) it is a negative number
Int64Of(g) ==
    IF \A k \in 5..Len(g) : g[k] = 0
    THEN g[1] + (IF Len(g) > 1 THEN 128 * g[2] ELSE 0)
              + (IF Len(g) > 2 THEN 16384 * g[3] ELSE 0)
              + (IF Len(g) > 3 THEN 2097152 * g[4] ELSE 0)
    ELSE IF Len(g) < MaxVarintLen \/ g[MaxVarintLen] = 0 THEN Int64Limit
    ELSE IF \A k \in 5..(MaxVarintLen - 1) : g[k] = 127
    THEN g[1] + 128 * g[2] + 16384 * g[3] + 2097152 * g[4] - Int64Limit
    ELSE 0 - Int64Limit

\* a continuation byte c put before the groups r that follow it
VarintJoin(c, r) == [ok |-> r.ok, groups |-> <<c - 128>> \o r.groups, next |-> r.next]

RECURSIVE VarintGroups(_, _, _)
\* the 7-bit groups of the varint from index i of b, n bytes already taken:
\* a tenth byte holds bit 63 alone, and no varint has an eleventh
VarintGroups(b, i, n) ==
    IF i > Len(b) \/ n >= MaxVarintLen THEN [ok |-> FALSE, groups |-> <<0>>, next |-> i]
    ELSE IF b[i] < 128
    THEN [ok |-> (n < MaxVarintLen - 1 \/ b[i] < 2), groups |-> <<b[i]>>, next |-> i + 1]
    ELSE VarintJoin(b[i], VarintGroups(b, i + 1, n + 1))

\* the varint with the groups g
VarintOf(g) ==
    [ok |-> g.ok, val |-> IF g.ok THEN Int64Of(g.groups) ELSE 0, next |-> g.next]

\* protowire.ConsumeVarint from index i of b, n bytes already taken
ConsumeVarint(b, i, n) == VarintOf(VarintGroups(b, i, n))

RECURSIVE AppendVarint(_)
\* protowire.AppendVarint: the minimal encoding of v, which has ten bytes for a
\* negative int64
AppendVarint(v) ==
    IF v < 0
    THEN [k \in 1..4 |-> 128 + (((v + Int64Limit) \div (128 ^ (k - 1))) % 128)]
         \o <<255, 255, 255, 255, 255, 1>>
    ELSE IF v < 128 THEN <<v>> ELSE <<128 + (v % 128)>> \o AppendVarint(v \div 128)

NoField == [ok |-> FALSE, num |-> 0, wt |-> 0, val |-> 0, data |-> <<>>, next |-> 0]

\* a varint field: its value v follows the tag
VarintField(num, v) ==
    [NoField EXCEPT !.ok = v.ok, !.num = num, !.wt = VarintType,
                    !.val = v.val, !.next = v.next]

\* a fixed field of n bytes from index j
FixedField(b, num, wt, j, n) ==
    [NoField EXCEPT !.ok = (j + n <= Len(b) + 1), !.num = num, !.wt = wt, !.next = j + n]

\* a length-delimited field: its length n follows the tag
BytesField(b, num, n) ==
    IF ~n.ok \/ n.val < 0 \/ n.next + n.val > Len(b) + 1 THEN NoField
    ELSE [NoField EXCEPT !.ok = TRUE, !.num = num, !.wt = BytesType,
                         !.data = SubSeq(b, n.next, n.next + n.val - 1),
                         !.next = n.next + n.val]

\* the field whose tag was read as num and wt, its value from index j
FieldValue(b, num, wt, j) ==
    IF wt = VarintType THEN VarintField(num, ConsumeVarint(b, j, 0))
    ELSE IF wt = Fixed64Type THEN FixedField(b, num, wt, j, 8)
    ELSE IF wt = Fixed32Type THEN FixedField(b, num, wt, j, 4)
    ELSE IF wt = BytesType THEN BytesField(b, num, ConsumeVarint(b, j, 0))
    ELSE NoField

\* the field after its tag: a field number 0 is invalid, and so is a tag
\* with bit 63 set
FieldAfterTag(b, tag) ==
    IF ~tag.ok \/ tag.val < 8 THEN NoField
    ELSE FieldValue(b, tag.val \div 8, tag.val % 8, tag.next)

\* one field of a message, from index i of b: its number, wire type, value
\* (varint) or data (length-delimited), and the index after it
ConsumeField(b, i) == FieldAfterTag(b, ConsumeVarint(b, i, 0))

\* utf8.Valid, on the inputs of this model (see above)
ValidUTF8(s) == \A i \in 1..Len(s) : s[i] < 128

Tag(num, wt) == AppendVarint(num * 8 + wt)
AppendBytes(num, data) == Tag(num, BytesType) \o AppendVarint(Len(data)) \o data

EmptyKeyInfo == [Key |-> <<>>, unknown |-> <<>>]

\* a field that the message does not know is kept, as its bytes
Unknown(m, b, i, f) == [m EXCEPT !.unknown = @ \o SubSeq(b, i, f.next - 1)]

Decoded(m) == [msg |-> m, err |-> ""]
Failed(m, err) == [msg |-> m, err |-> err]

RECURSIVE KeyInfoMerge(_, _, _)
RECURSIVE KeyInfoField(_, _, _, _)
\* the field f read at index i of b, merged into the KeyInfo m
KeyInfoField(m, b, i, f) ==
    IF ~f.ok THEN Failed(m, ErrParse)
    ELSE IF f.num = 1 /\ f.wt = BytesType
    THEN KeyInfoMerge([m EXCEPT !.Key = f.data], b, f.next)
    ELSE KeyInfoMerge(Unknown(m, b, i, f), b, f.next)

\* the fields of b from index i merged into m, in order, up to the first
\* error: the message is left as it was at the failure point
KeyInfoMerge(m, b, i) ==
    IF i > Len(b) THEN Decoded(m) ELSE KeyInfoField(m, b, i, ConsumeField(b, i))

KeyInfoMarshal(m) ==
    (IF m.Key = <<>> THEN <<>> ELSE AppendBytes(1, m.Key)) \o m.unknown

\* the zero Entrypoint message; KeyInfo is a pointer
EmptyEntrypoint ==
    [BlobName |-> <<>>, KeyInfo |-> <<>>, MimeType |-> <<>>,
     NotValidBeforeUnixMicro |-> 0, NotValidAfterUnixMicro |-> 0,
     unknown |-> <<>>]

RECURSIVE EntrypointMerge(_, _, _)
RECURSIVE EntrypointField(_, _, _, _)
\* field 2 of an Entrypoint, decoded as k, merges into the KeyInfo it has
EntrypointKeyInfo(m, b, f, k) ==
    IF k.err # "" THEN Failed(m, k.err)
    ELSE EntrypointMerge([m EXCEPT !.KeyInfo = <<k.msg>>], b, f.next)

\* the field f read at index i of b, merged into the Entrypoint m
EntrypointField(m, b, i, f) ==
    IF ~f.ok THEN Failed(m, ErrParse)
    ELSE IF f.num = 1 /\ f.wt = BytesType
    THEN EntrypointMerge([m EXCEPT !.BlobName = f.data], b, f.next)
    ELSE IF f.num = 2 /\ f.wt = BytesType
    THEN EntrypointKeyInfo(m, b, f,
            KeyInfoMerge(IF m.KeyInfo = <<>> THEN EmptyKeyInfo ELSE m.KeyInfo[1],
                         f.data, 1))
    ELSE IF f.num = 3 /\ f.wt = BytesType
    THEN IF ~ValidUTF8(f.data) THEN Failed(m, ErrUTF8)
         ELSE EntrypointMerge([m EXCEPT !.MimeType = f.data], b, f.next)
    ELSE IF f.num = 4 /\ f.wt = VarintType
    THEN EntrypointMerge([m EXCEPT !.NotValidBeforeUnixMicro = f.val], b, f.next)
    ELSE IF f.num = 5 /\ f.wt = VarintType
    THEN EntrypointMerge([m EXCEPT !.NotValidAfterUnixMicro = f.val], b, f.next)
    ELSE EntrypointMerge(Unknown(m, b, i, f), b, f.next)

EntrypointMerge(m, b, i) ==
    IF i > Len(b) THEN Decoded(m) ELSE EntrypointField(m, b, i, ConsumeField(b, i))

\* proto.Unmarshal(b, &protobuf.Entrypoint{})
EntrypointUnmarshal(b) == EntrypointMerge(EmptyEntrypoint, b, 1)

\* proto.Marshal of an Entrypoint: known fields in field-number order, zero
\* values omitted, unknown fields last
EntrypointMarshal(m) ==
    (IF m.BlobName = <<>> THEN <<>> ELSE AppendBytes(1, m.BlobName)) \o
    (IF m.KeyInfo = <<>> THEN <<>> ELSE AppendBytes(2, KeyInfoMarshal(m.KeyInfo[1]))) \o
    (IF m.MimeType = <<>> THEN <<>> ELSE AppendBytes(3, m.MimeType)) \o
    (IF m.NotValidBeforeUnixMicro = 0 THEN <<>>
     ELSE Tag(4, VarintType) \o AppendVarint(m.NotValidBeforeUnixMicro)) \o
    (IF m.NotValidAfterUnixMicro = 0 THEN <<>>
     ELSE Tag(5, VarintType) \o AppendVarint(m.NotValidAfterUnixMicro)) \o
    m.unknown

\* the zero Directory_Entry message; Ep is a pointer
EmptyEntry == [Name |-> <<>>, Ep |-> <<>>, unknown |-> <<>>]

RECURSIVE EntryMerge(_, _, _)
RECURSIVE EntryField(_, _, _, _)
\* field 2 of an Entry, decoded as e, merges into the Entrypoint it has
EntryEp(m, b, f, e) ==
    IF e.err # "" THEN Failed(m, e.err)
    ELSE EntryMerge([m EXCEPT !.Ep = <<e.msg>>], b, f.next)

\* the field f read at index i of b, merged into the Entry m
EntryField(m, b, i, f) ==
    IF ~f.ok THEN Failed(m, ErrParse)
    ELSE IF f.num = 1 /\ f.wt = BytesType
    THEN IF ~ValidUTF8(f.data) THEN Failed(m, ErrUTF8)
         ELSE EntryMerge([m EXCEPT !.Name = f.data], b, f.next)
    ELSE IF f.num = 2 /\ f.wt = BytesType
    THEN EntryEp(m, b, f,
            EntrypointMerge(IF m.Ep = <<>> THEN EmptyEntrypoint ELSE m.Ep[1], f.data, 1))
    ELSE EntryMerge(Unknown(m, b, i, f), b, f.next)

EntryMerge(m, b, i) ==
    IF i > Len(b) THEN Decoded(m) ELSE EntryField(m, b, i, ConsumeField(b, i))

EntryMarshal(m) ==
    (IF m.Name = <<>> THEN <<>> ELSE AppendBytes(1, m.Name)) \o
    (IF m.Ep = <<>> THEN <<>> ELSE AppendBytes(2, EntrypointMarshal(m.Ep[1]))) \o
    m.unknown

EmptyDirectory == [Entries |-> <<>>, unknown |-> <<>>]

RECURSIVE DirectoryMerge(_, _, _)
RECURSIVE DirectoryField(_, _, _, _)
\* field 1 of a Directory, decoded as e: an entry is appended once it has
\* decoded whole, and the entries decoded before a failure stay in the message
DirectoryEntry(m, b, f, e) ==
    IF e.err # "" THEN Failed(m, e.err)
    ELSE DirectoryMerge([m EXCEPT !.Entries = Append(@, e.msg)], b, f.next)

\* the field f read at index i of b, merged into the Directory m
DirectoryField(m, b, i, f) ==
    IF ~f.ok THEN Failed(m, ErrParse)
    ELSE IF f.num = 1 /\ f.wt = BytesType
    THEN DirectoryEntry(m, b, f, EntryMerge(EmptyEntry, f.data, 1))
    ELSE DirectoryMerge(Unknown(m, b, i, f), b, f.next)

DirectoryMerge(m, b, i) ==
    IF i > Len(b) THEN Decoded(m) ELSE DirectoryField(m, b, i, ConsumeField(b, i))

\* proto.Unmarshal(content, &protobuf.Directory{})
DirectoryUnmarshal(b) == DirectoryMerge(EmptyDirectory, b, 1)

DirectoryMarshal(m) ==
    Concat([i \in 1..Len(m.Entries) |-> AppendBytes(1, EntryMarshal(m.Entries[i]))])
    \o m.unknown

(***************************************************************************)
(* Blob names and blob types (github.com/cinode/go pkg/common, blobtypes)  *)
(***************************************************************************)
ErrInvalidBlobName == "invalid blob name"
MaxBlobNameLen == 127

\* the name taken as it is
BlobNameFromBytesUnchecked(n) == [bn |-> <<n>>, err |-> ""]

\* common.BlobNameFromBytes: the name, or an error for an empty or too long one
BlobNameFromBytes(n) ==
    IF Len(n) = 0 \/ Len(n) > MaxBlobNameLen
    THEN [bn |-> <<>>, err |-> ErrInvalidBlobName]
    ELSE [bn |-> <<n>>, err |-> ""]

\* BlobName.Type(): the type byte is scrambled with every byte of the hash
BlobType(bn) == XorAll(bn)

Static == 1
DynamicLink == 2

\* common.BlobNameFromHashAndType, used to build the stored fixtures
BlobNameFromHashAndType(hash, t) == <<Xor(t, XorAll(hash))>> \o hash

\* cinodefs.CinodeDirMimeType = "application/cinode-dir"
CinodeDirMimeType ==
    <<97, 112, 112, 108, 105, 99, 97, 116, 105, 111, 110, 47,
      99, 105, 110, 111, 100, 101, 45, 100, 105, 114>>

\* "image/" and "text/"
ImagePrefix == <<105, 109, 97, 103, 101, 47>>
TextPrefix == <<116, 101, 120, 116, 47>>

(***************************************************************************)
(* ParsedEP and the three resolvers                                        *)
(***************************************************************************)
\* the zero value of struct ParsedEP
ZeroParsedEP ==
    [Name |-> <<>>, EP |-> <<>>, Str |-> <<>>, BN |-> <<>>, MimeType |-> <<>>,
     IsDir |-> FALSE, IsLink |-> FALSE,
     NotValidBefore |-> <<>>, NotValidAfter |-> <<>>, Err |-> ""]

\* time.UnixMicro(usec).UTC(): seconds and nanoseconds since the epoch
UnixMicro(usec) == [sec |-> usec \div 1000000, nsec |-> (usec % 1000000) * 1000]

\* proto.Marshal of a *protobuf.Entrypoint (nil marshals to no bytes); it
\* fails on a string field that is not UTF-8
MarshalEP(ep) ==
    IF ep = <<>> THEN [bytes |-> <<>>, err |-> ""]
    ELSE IF ~ValidUTF8(ep[1].MimeType) THEN [bytes |-> <<>>, err |-> ErrUTF8]
    ELSE [bytes |-> EntrypointMarshal(ep[1]), err |-> ""]

\* the getters of a *protobuf.Entrypoint: a nil pointer reads as the zero message
Deref(ep) == IF ep = <<>> THEN EmptyEntrypoint ELSE ep[1]

\* the ParsedEP of ep with the text of its blob name as Str
newParsedEPNameText(ep, name, m, bn) ==
    IF m.err # "" THEN [ZeroParsedEP EXCEPT !.Err = m.err]
    ELSE IF bn.err # "" THEN [ZeroParsedEP EXCEPT !.Err = bn.err]
    ELSE [ZeroParsedEP EXCEPT
            !.IsDir = (Deref(ep).MimeType = CinodeDirMimeType),
            !.IsLink = (BlobType(bn.bn[1]) = DynamicLink),
            !.Name = name,
            !.EP = ep,
            !.Str = Base58Encode(bn.bn[1]),
            !.BN = bn.bn,
            !.MimeType = Deref(ep).MimeType,
            !.NotValidBefore =
                IF Deref(ep).NotValidBeforeUnixMicro > 0
                THEN <<UnixMicro(Deref(ep).NotValidBeforeUnixMicro)>> ELSE <<>>,
            !.NotValidAfter =
                IF Deref(ep).NotValidAfterUnixMicro > 0
                THEN <<UnixMicro(Deref(ep).NotValidAfterUnixMicro)>> ELSE <<>>]

\* lines 78-109: the ParsedEP of ep, marshalled as m, its blob name read as bn
newParsedEP(ep, name, m, bn) ==
    IF m.err # "" THEN [ZeroParsedEP EXCEPT !.Err = m.err]
    ELSE IF bn.err # "" THEN [ZeroParsedEP EXCEPT !.Err = bn.err]
    ELSE [ZeroParsedEP EXCEPT
            !.IsDir = (Deref(ep).MimeType = CinodeDirMimeType),
            !.IsLink = (BlobType(bn.bn[1]) = DynamicLink),
            !.Name = name,
            !.EP = ep,
            !.Str = Base58Encode(m.bytes),
            !.BN = bn.bn,
            !.MimeType = Deref(ep).MimeType,
            !.NotValidBefore =
                IF Deref(ep).NotValidBeforeUnixMicro > 0
                THEN <<UnixMicro(Deref(ep).NotValidBeforeUnixMicro)>> ELSE <<>>,
            !.NotValidAfter =
                IF Deref(ep).NotValidAfterUnixMicro > 0
                THEN <<UnixMicro(Deref(ep).NotValidAfterUnixMicro)>> ELSE <<>>]

getParsedEP(ep, name) ==
    newParsedEP(ep, name, MarshalEP(ep), BlobNameFromBytes(Deref(ep).BlobName))

\* the error of proto.Unmarshal put into the entry of what was decoded
parsedUnmarshalledPartial(u, name) ==
    IF u.err # "" THEN [getParsedEP(<<u.msg>>, name) EXCEPT !.Err = u.err]
    ELSE getParsedEP(<<u.msg>>, name)

\* lines 115-118: the ParsedEP of the outcome u of proto.Unmarshal
parsedUnmarshalled(u, name) ==
    IF u.err # "" THEN [ZeroParsedEP EXCEPT !.Err = u.err]
    ELSE getParsedEP(<<u.msg>>, name)

getParsedEPFromBytes(epBytes, name) ==
    parsedUnmarshalled(EntrypointUnmarshal(epBytes), name)

ErrNotBase58 == "invalid entrypoint - not a base58 data"

\* the decoded bytes parsed with no check of the text
parsedDecodedUnchecked(epString, epBytes, name) ==
    getParsedEPFromBytes(epBytes, name)

\* lines 123-126: the ParsedEP of the text epString, decoded as epBytes
parsedDecoded(epString, epBytes, name) ==
    IF Base58Encode(epBytes) # epString
    THEN [ZeroParsedEP EXCEPT !.Err = ErrNotBase58]
    ELSE getParsedEPFromBytes(epBytes, name)

getParsedEPFromString(epString, name) ==
    parsedDecoded(epString, Base58Decode(epString), name)

(***************************************************************************)
(* The encrypted blob store (blenc.BE over a datastore), read only.  A     *)
(* store is a function from blob names to [key, content]: Open fails for a *)
(* name the store does not hold, and the read of an opened blob fails when *)
(* the key does not fit the blob, with the bytes read before the failure   *)
(* (here the first half of the content) returned beside the error.         *)
(***************************************************************************)
ErrNotFound == "blob not found"
ErrInvalidKey == "invalid key"

\* no call of be.Open: no reader, no error
NoReader == [reader |-> <<>>, err |-> "", calls |-> 0]

\* be.Open(ctx, bn, key)
Open(st, bn, key) ==
    IF bn \in DOMAIN st
    THEN [NoReader EXCEPT !.reader = <<[bn |-> bn, key |-> key]>>, !.calls = 1]
    ELSE [NoReader EXCEPT !.err = ErrNotFound, !.calls = 1]

\* io.ReadAll(contentReader)
ReadAll(st, reader) ==
    IF st[reader.bn].key = reader.key
    THEN [content |-> st[reader.bn].content, err |-> ""]
    ELSE [content |-> SubSeq(st[reader.bn].content, 1, Len(st[reader.bn].content) \div 2),
          err |-> ErrInvalidKey]

\* ep.KeyInfo.GetKey()
GetKey(ep) == IF Deref(ep).KeyInfo = <<>> THEN <<>> ELSE Deref(ep).KeyInfo[1].Key

\* lines 144-152 of readBlob: the reader on the blob of ep, or the error
openNamed(st, ep, bn) ==
    IF bn.err # "" THEN [NoReader EXCEPT !.err = bn.err]
    ELSE Open(st, bn.bn[1], GetKey(ep))

openBlob(st, ep) == openNamed(st, ep, BlobNameFromBytes(Deref(ep).BlobName))

\* lines 153-155 of readBlob: the content read from the reader o, which the
\* deferred Close releases
readOpened(st, o) ==
    IF o.err # "" THEN [content |-> <<>>, err |-> o.err]
    ELSE ReadAll(st, o.reader[1])

readBlob(st, ep) == readOpened(st, openBlob(st, ep))

(***************************************************************************)
(* extractParams: the view (EPData) of a reference text                    *)
(***************************************************************************)
maxBytesDump == 512 * 4

\* The Go string built by the dump loop, kept as its parts: one cell per
\* dumped byte, the two hex digits of "%02x" and the separator written after
\* them, and the number N of the trailing ".... (N more)", if it was written.
EmptyDump == [cells |-> <<>>, suffix |-> <<>>]

HexDigits ==
    <<"0", "1", "2", "3", "4", "5", "6", "7", "8", "9", "a", "b", "c", "d", "e", "f">>

\* fmt.Sprintf("%02x", b)
Hex02(b) == HexDigits[(b \div 16) + 1] \o HexDigits[(b % 16) + 1]

\* the separator with the rule of every 8th byte looked at first
SeparatorEightFirst(i) ==
    IF (i + 1) % 8 = 0 THEN "  "
    ELSE IF (i + 1) % 32 = 0 THEN "\n"
    ELSE " "

\* the separator after byte i, i counted from 0 as in the code
Separator(i) ==
    IF (i + 1) % 32 = 0 THEN "\n"
    ELSE IF (i + 1) % 8 = 0 THEN "  "
    ELSE " "

\* the dump with the suffix written from maxBytesDump bytes on
HexDumpFromLimit(content) ==
    [cells  |-> [k \in 1..Min(Len(content), maxBytesDump) |->
                    Hex02(content[k]) \o Separator(k - 1)],
     suffix |-> IF Len(content) >= maxBytesDump
                THEN <<Len(content) - maxBytesDump>> ELSE <<>>]

\* cell k is byte i = k - 1 of the loop
HexDump(content) ==
    [cells  |-> [k \in 1..Min(Len(content), maxBytesDump) |->
                    Hex02(content[k]) \o Separator(k - 1)],
     suffix |-> IF Len(content) > maxBytesDump
                THEN <<Len(content) - maxBytesDump>> ELSE <<>>]

\* base64.RawStdEncoding: "A".."Z", "a".."z", "0".."9", "+", "/", no padding
StdAlphabet ==
    [i \in 1..26 |-> 64 + i] \o [i \in 1..26 |-> 96 + i] \o
    [i \in 1..10 |-> 47 + i] \o <<43, 47>>

\* the byte of src at index i, or zero bits past its end
ByteAt(src, i) == IF i <= Len(src) THEN src[i] ELSE 0

\* the 24 bits of the three bytes of src from index i
Group(src, i) == ByteAt(src, i) * 65536 + ByteAt(src, i + 1) * 256 + ByteAt(src, i + 2)

\* the k-th 6 bits of the 24 bits v, k = 0 the most significant
Sextet(v, k) ==
    IF k = 0 THEN (v \div 262144) % 64
    ELSE IF k = 1 THEN (v \div 4096) % 64
    ELSE IF k = 2 THEN (v \div 64) % 64
    ELSE v % 64

\* base64.StdEncoding: the last four characters filled up with "="
Base64EncodePadded(src) ==
    [j \in 1..(4 * ((Len(src) + 2) \div 3)) |->
        IF j <= (Len(src) * 4 + 2) \div 3
        THEN StdAlphabet[Sextet(Group(src, 3 * ((j - 1) \div 4) + 1), (j - 1) % 4) + 1]
        ELSE 61]

\* base64.RawStdEncoding.EncodeToString: four characters per three bytes,
\* and two or three for the one or two bytes left over
Base64Encode(src) ==
    [j \in 1..((Len(src) * 4 + 2) \div 3) |->
        StdAlphabet[Sextet(Group(src, 3 * ((j - 1) \div 4) + 1), (j - 1) % 4) + 1]]

\* the zero value of struct EPData with DefaultEP set
ZeroEPData(cfg) ==
    [EP |-> ZeroParsedEP, EPDump |-> <<>>, ContentErr |-> "",
     ContentHexDump |-> EmptyDump, ContentLen |-> 0, Link |-> ZeroParsedEP,
     DirErr |-> "", DirContent |-> <<>>, Image |-> <<>>, Text |-> <<>>,
     DefaultEP |-> cfg.Entrypoint]

ErrMissingEntrypoint == "Missing entrypoint data"

\* the directory error set in place of what was computed from the content
dirPayloadBlanking(pageParams, dir) ==
    IF dir.err # ""
    THEN [pageParams EXCEPT !.DirErr = dir.err, !.ContentHexDump = EmptyDump,
                            !.ContentLen = 0]
    ELSE [pageParams EXCEPT
            !.DirContent = [i \in 1..Len(dir.msg.Entries) |->
                getParsedEP(dir.msg.Entries[i].Ep, dir.msg.Entries[i].Name)]]

\* the entries of the decoded directory, the last one first
dirPayloadReversed(pageParams, dir) ==
    [pageParams EXCEPT
        !.DirErr = dir.err,
        !.DirContent = [i \in 1..Len(dir.msg.Entries) |->
            getParsedEP(dir.msg.Entries[Len(dir.msg.Entries) + 1 - i].Ep,
                        dir.msg.Entries[Len(dir.msg.Entries) + 1 - i].Name)]]

\* the listing broken off at the first entry that does not resolve, with the
\* error of that entry as the error of the directory
dirPayloadAborting(pageParams, dir) ==
    LET all == [i \in 1..Len(dir.msg.Entries) |->
                   getParsedEP(dir.msg.Entries[i].Ep, dir.msg.Entries[i].Name)]
        bad == {i \in 1..Len(all) : all[i].Err # ""}
    IN  IF dir.err # "" \/ bad = {}
        THEN [pageParams EXCEPT !.DirErr = dir.err, !.DirContent = all]
        ELSE LET first == CHOOSE i \in bad : \A j \in bad : i <= j
             IN  [pageParams EXCEPT !.DirErr = all[first].Err,
                                    !.DirContent = SubSeq(all, 1, first - 1)]

\* the error in place of the entries where the directory does not decode
dirPayloadErrorOnly(pageParams, dir) ==
    [pageParams EXCEPT
        !.DirErr = dir.err,
        !.DirContent =
            IF dir.err # "" THEN <<>>
            ELSE [i \in 1..Len(dir.msg.Entries) |->
                    getParsedEP(dir.msg.Entries[i].Ep, dir.msg.Entries[i].Name)]]

\* lines 205-212: the error and the entries of the decoded directory
dirPayload(pageParams, dir) ==
    [pageParams EXCEPT
        !.DirErr = dir.err,
        !.DirContent = [i \in 1..Len(dir.msg.Entries) |->
            getParsedEP(dir.msg.Entries[i].Ep, dir.msg.Entries[i].Name)]]

\* the switch with the link case decoding the entry in place of the content
contentSwitchLinkSelf(pageParams, content) ==
    IF pageParams.EP.IsLink
    THEN [pageParams EXCEPT
            !.Link = getParsedEPFromBytes(EntrypointMarshal(pageParams.EP.EP[1]), <<>>)]
    ELSE IF pageParams.EP.IsDir
    THEN dirPayload(pageParams, DirectoryUnmarshal(content))
    ELSE IF HasPrefix(pageParams.EP.MimeType, ImagePrefix)
    THEN [pageParams EXCEPT !.Image = Base64Encode(content)]
    ELSE IF HasPrefix(pageParams.EP.MimeType, TextPrefix)
    THEN [pageParams EXCEPT !.Text = content]
    ELSE pageParams

\* the switch with the directory case tested before the link case
contentSwitchDirFirst(pageParams, content) ==
    IF pageParams.EP.IsDir
    THEN dirPayload(pageParams, DirectoryUnmarshal(content))
    ELSE IF pageParams.EP.IsLink
    THEN [pageParams EXCEPT !.Link = getParsedEPFromBytes(content, <<>>)]
    ELSE IF HasPrefix(pageParams.EP.MimeType, ImagePrefix)
    THEN [pageParams EXCEPT !.Image = Base64Encode(content)]
    ELSE IF HasPrefix(pageParams.EP.MimeType, TextPrefix)
    THEN [pageParams EXCEPT !.Text = content]
    ELSE pageParams

\* lines 198-219: the switch on the kind of the entry
contentSwitch(pageParams, content) ==
    IF pageParams.EP.IsLink
    THEN [pageParams EXCEPT !.Link = getParsedEPFromBytes(content, <<>>)]
    ELSE IF pageParams.EP.IsDir
    THEN dirPayload(pageParams, DirectoryUnmarshal(content))
    ELSE IF HasPrefix(pageParams.EP.MimeType, ImagePrefix)
    THEN [pageParams EXCEPT !.Image = Base64Encode(content)]
    ELSE IF HasPrefix(pageParams.EP.MimeType, TextPrefix)
    THEN [pageParams EXCEPT !.Text = content]
    ELSE pageParams

\* lines 179-221: the view once the content has been read
withContent(pageParams, content) ==
    contentSwitch([pageParams EXCEPT !.ContentHexDump = HexDump(content),
                                     !.ContentLen = Len(content)],
                  content)

\* the view with the error of readBlob noted and the inspection going on
afterReadGoingOn(pageParams, blob) ==
    withContent([pageParams EXCEPT !.ContentErr = blob.err], blob.content)

\* lines 174-221: the view given the outcome of readBlob
afterRead(pageParams, blob) ==
    IF blob.err # "" THEN [pageParams EXCEPT !.ContentErr = blob.err]
    ELSE withContent(pageParams, blob.content)

\* lines 169-221: the view once the text has been parsed
afterParse(pageParams, st) ==
    IF pageParams.EP.Err # "" THEN pageParams
    ELSE afterRead(pageParams, readBlob(st, pageParams.EP.EP))

\* the view of no text, parsed as a text is
missingEntrypointParsed(cfg) ==
    [ZeroEPData(cfg) EXCEPT !.EP = getParsedEPFromString(<<>>, <<>>)]

\* lines 163-165: the view of no text
missingEntrypoint(cfg) ==
    [ZeroEPData(cfg) EXCEPT !.EP = [ZeroParsedEP EXCEPT !.Err = ErrMissingEntrypoint]]

\* line 168: the view with the text parsed
parsedEntrypoint(cfg, eps) ==
    [ZeroEPData(cfg) EXCEPT !.EP = getParsedEPFromString(eps, <<>>)]

extractParams(cfg, st, eps) ==
    IF eps = <<>> THEN missingEntrypoint(cfg)
    ELSE afterParse(parsedEntrypoint(cfg, eps), st)

(***************************************************************************)
(* Stored blobs and reference texts the requests are drawn from, after the *)
(* fixtures of analyzer_test.go (SetupTest), with short hashes and keys.   *)
(***************************************************************************)
\* how many bytes the large file has beyond maxBytesDump
MaxExtra == 3
\* the number of entries of the root directory taken from RootEntries
MaxDirEntries == 5

TextPlain == <<116, 101, 120, 116, 47, 112>>        \* "text/p"
ImagePng == <<105, 109, 97, 103, 101, 47, 112>>     \* "image/p"
OctetStream == <<97, 112, 112, 47, 111>>            \* "app/o"

\* an Entrypoint of a blob of type t with the given hash, key and MIME type
Ref(hash, t, key, mime) ==
    [EmptyEntrypoint EXCEPT !.BlobName = BlobNameFromHashAndType(hash, t),
                            !.KeyInfo = <<[Key |-> key, unknown |-> <<>>]>>,
                            !.MimeType = mime]

Name(c) == <<c>>
Garbage == Repeat(122, 12)                          \* "zzzzzzzzzzzz"

textEP == [Ref(<<1>>, Static, <<11>>, TextPlain) EXCEPT
              !.NotValidBeforeUnixMicro = 5, !.NotValidAfterUnixMicro = 1000001]
imageEP == Ref(<<2>>, Static, <<12>>, ImagePng)
\* a file that was valid until one microsecond before the epoch, with no blob
expiredEP == [Ref(<<31>>, Static, <<32>>, TextPlain) EXCEPT !.NotValidAfterUnixMicro = 0 - 1]
\* a text file whose content is no text in any encoding
binTextEP == Ref(<<29>>, Static, <<30>>, TextPlain)
largeFileEP == Ref(<<3>>, Static, <<13>>, OctetStream)
exactFileEP == Ref(<<4>>, Static, <<14>>, OctetStream)
missingEP == Ref(<<5>>, Static, <<15>>, TextPlain)
linkTargetEP == Ref(<<6>>, Static, <<16>>, <<>>)
linkEP == Ref(<<7>>, DynamicLink, <<17>>, <<>>)
brokenLinkEP == Ref(<<8>>, DynamicLink, <<18>>, OctetStream)
brokenDirEP == Ref(<<9>>, Static, <<19>>, CinodeDirMimeType)
rootEP == Ref(<<10>>, Static, <<20>>, CinodeDirMimeType)
\* a directory whose content breaks off after its first entry
tornDirEP == Ref(<<21>>, Static, <<22>>, CinodeDirMimeType)
\* a link to a Reference with a blob name longer than any blob name
longNameLinkEP == Ref(<<27>>, DynamicLink, <<28>>, <<>>)
\* a dynamic link that declares the directory MIME type
linkDirEP == Ref(<<23>>, DynamicLink, <<24>>, CinodeDirMimeType)
\* a directory with an entry that has no Entrypoint, between two that have
oddDirEP == Ref(<<25>>, Static, <<26>>, CinodeDirMimeType)
\* a directory with no entries
emptyDirEP == Ref(<<33>>, Static, <<34>>, CinodeDirMimeType)
\* the text file and the link, each with a key that is not its key
wrongKeyEP == [textEP EXCEPT !.KeyInfo = <<[Key |-> <<99>>, unknown |-> <<>>]>>]
wrongKeyLinkEP == [linkEP EXCEPT !.KeyInfo = <<[Key |-> <<98>>, unknown |-> <<>>]>>]

Entry(name, ep) == [EmptyEntry EXCEPT !.Name = name, !.Ep = <<ep>>]

\* testTextFile, testImage, largeFile, missingFile, link: "t", "i", "l", "m",
\* "k", and a sixth file "e"
RootEntries ==
    <<Entry(Name(116), textEP), Entry(Name(105), imageEP),
      Entry(Name(108), largeFileEP), Entry(Name(109), missingEP),
      Entry(Name(107), linkEP), Entry(Name(101), exactFileEP)>>

RootDir ==
    [EmptyDirectory EXCEPT !.Entries = SubSeq(RootEntries, 1, Min(MaxDirEntries, Len(RootEntries)))]

OddDir ==
    [EmptyDirectory EXCEPT !.Entries =
        <<Entry(Name(100), brokenDirEP), [EmptyEntry EXCEPT !.Name = Name(120)],
          Entry(Name(116), textEP)>>]

Blob(ep, content) ==
    [name |-> ep.BlobName, key |-> ep.KeyInfo[1].Key, content |-> content]

Blobs ==
    {Blob(textEP, <<104, 105>>),
     Blob(imageEP, <<1, 2, 3, 4, 5, 6, 7>>),
     Blob(binTextEP, <<255, 104, 0, 192, 128>>),
     Blob(largeFileEP, Repeat(0, maxBytesDump + MaxExtra)),
     Blob(exactFileEP, [i \in 1..maxBytesDump |-> i % 256]),
     Blob(linkTargetEP, <<108>>),
     Blob(linkEP, EntrypointMarshal(linkTargetEP)),
     Blob(brokenLinkEP, Garbage),
     Blob(brokenDirEP, Garbage),
     Blob(rootEP, DirectoryMarshal(RootDir)),
     Blob(tornDirEP, DirectoryMarshal(RootDir) \o Garbage),
     Blob(linkDirEP, DirectoryMarshal(RootDir)),
     Blob(longNameLinkEP, AppendBytes(1, Repeat(9, MaxBlobNameLen + 1))),
     Blob(oddDirEP, DirectoryMarshal(OddDir)),
     Blob(emptyDirEP, DirectoryMarshal(EmptyDirectory))}

StoreOf(blobs) ==
    [n \in {b.name : b \in blobs} |->
        LET b == CHOOSE x \in blobs : x.name = n
        IN  [key |-> b.key, content |-> b.content]]

FullStore == StoreOf(Blobs)
\* the same store before the link target and the root directory were written
PartStore == StoreOf({b \in Blobs : b.name \notin {linkEP.BlobName, rootEP.BlobName}})

\* the states of the datastore, by name
Stores == {"full", "part"}
Content(st) == IF st = "full" THEN FullStore ELSE PartStore

toEPString(ep) == Base58Encode(EntrypointMarshal(ep))

\* the bytes of the text file's Entrypoint with the MIME type written first:
\* a valid encoding that proto.Marshal never produces
SwappedBytes ==
    AppendBytes(3, TextPlain) \o AppendBytes(1, textEP.BlobName)
    \o AppendBytes(2, KeyInfoMarshal(textEP.KeyInfo[1]))

ValidTexts ==
    {toEPString(ep) : ep \in {textEP, imageEP, largeFileEP, exactFileEP, missingEP,
                              linkTargetEP, linkEP, brokenLinkEP, brokenDirEP, rootEP,
                              tornDirEP, linkDirEP, oddDirEP, wrongKeyEP,
                              wrongKeyLinkEP, longNameLinkEP, binTextEP,
                              expiredEP, emptyDirEP}}

OddTexts ==
    {<<>>,                                          \* no text
     <<110, 111, 116, 45, 64, 35>>,                 \* "not-@#"
     toEPString(textEP) \o <<48>>,                  \* a valid text and "0"
     Repeat(122, 25),                               \* "zzzzzzzzzzzzzzzzzzzzzzzzz"
     <<49, 122>>,                                   \* "1z"
     Base58Encode(SwappedBytes),
     Base58Encode(EntrypointMarshal(imageEP) \o <<122>>), \* broken off after its fields
     Base58Encode(AppendBytes(3, TextPlain)),       \* a Reference with no blob name
     Base58Encode(<<8, 1>> \o EntrypointMarshal(imageEP))} \* with an unknown field

Texts == ValidTexts \cup OddTexts

(***************************************************************************)
(* The Link Payload parser and the inspection of a link (spec.md 4.2 and   *)
(* 4.4 step 4).  The templates print its result (ep-detail.html, lines     *)
(* 70-118: .Link.LinkDataErr, .Link.LinkVersion, .Link.PublicKey,          *)
(* .Link.Nonce, .Link.Signature, .Link.ContentVersion, .Link.IV); the      *)
(* parser itself is not part of analyzer.go and is written down here as    *)
(* the specification describes it.  The 64-bit numbers are kept as their   *)
(* eight base-256 digits, most significant first.                          *)
(***************************************************************************)
ErrTruncatedLinkPayload == "TruncatedLinkPayload"
ErrInvalidIVSize == "InvalidIVSize"

\* the sizes of the fields of fixed size (an Ed25519 key and signature)
PublicKeySize == 32
SignatureSize == 64
Uint64Size == 8
\* the least IV-length byte that is refused: its high bit is set
IVSizeLimit == 128

ZeroLinkPayload ==
    [LinkVersion |-> 0, PublicKey |-> <<>>, Nonce |-> <<>>, Signature |-> <<>>,
     ContentVersion |-> <<>>, IV |-> <<>>]

\* a cursor over rawBytes: the bytes consumed so far and the fields read
newCursor(rawBytes) == [raw |-> rawBytes, pos |-> 0, err |-> "", fields |-> <<>>]

\* the next n bytes read as one field
readBytes(c, n) ==
    IF c.err # "" THEN c
    ELSE IF c.pos + n > Len(c.raw) THEN [c EXCEPT !.err = ErrTruncatedLinkPayload]
    ELSE [c EXCEPT !.pos = @ + n,
                   !.fields = Append(@, SubSeq(c.raw, c.pos + 1, c.pos + n))]

\* the IV bytes asked for before the size is looked at
readIVSizeLast(c) ==
    IF c.err # "" THEN c
    ELSE IF c.pos + c.fields[6][1] > Len(c.raw)
    THEN [c EXCEPT !.err = ErrTruncatedLinkPayload]
    ELSE IF c.fields[6][1] >= IVSizeLimit THEN [c EXCEPT !.err = ErrInvalidIVSize]
    ELSE readBytes(c, c.fields[6][1])

\* the IV: as many bytes as the IV-length byte read before it says
readIV(c) ==
    IF c.err # "" THEN c
    ELSE IF c.fields[6][1] >= IVSizeLimit THEN [c EXCEPT !.err = ErrInvalidIVSize]
    ELSE readBytes(c, c.fields[6][1])

\* the fields of fixed size, in their order, and the IV-length byte
readHeader(c) ==
    readBytes(readBytes(readBytes(readBytes(readBytes(readBytes(c, 1),
        PublicKeySize), Uint64Size), SignatureSize), Uint64Size), 1)

\* the payload with the fields that were read before the error
payloadOfPartial(c) ==
    LET f == [i \in 1..7 |-> IF i <= Len(c.fields) THEN c.fields[i] ELSE <<>>]
    IN  [payload |-> [LinkVersion |-> IF f[1] = <<>> THEN 0 ELSE f[1][1],
                      PublicKey |-> f[2], Nonce |-> f[3], Signature |-> f[4],
                      ContentVersion |-> f[5], IV |-> f[7]],
         err |-> c.err, consumed |-> c.pos]

\* the result of the parse: the payload, or the error and no payload
payloadOf(c) ==
    IF c.err # "" THEN [payload |-> ZeroLinkPayload, err |-> c.err, consumed |-> c.pos]
    ELSE [payload |-> [LinkVersion |-> c.fields[1][1], PublicKey |-> c.fields[2],
                       Nonce |-> c.fields[3], Signature |-> c.fields[4],
                       ContentVersion |-> c.fields[5], IV |-> c.fields[7]],
          err |-> "", consumed |-> c.pos]

\* parse(rawBytes)
parseLinkPayload(rawBytes) == payloadOf(readIV(readHeader(newCursor(rawBytes))))

\* no raw bytes parsed
NoLinkData == [payload |-> ZeroLinkPayload, err |-> "", consumed |-> 0]

\* the link inspected with the envelope parsed only once the target decoded
inspectLinkTargetFirst(content, rawBytes) ==
    LET target == getParsedEPFromBytes(content, <<>>)
    IN  [Link |-> target,
         LinkData |-> IF target.Err # "" THEN NoLinkData
                      ELSE parseLinkPayload(rawBytes)]

\* spec.md 4.4 step 4: the decrypted content decoded as the target Reference,
\* and the raw stored bytes parsed as a Link Payload
inspectLink(content, rawBytes) ==
    [Link |-> getParsedEPFromBytes(content, <<>>),
     LinkData |-> parseLinkPayload(rawBytes)]

\* the length of the longest IV of the well-formed envelopes below
MaxIV == 2

\* the number of bytes before the IV
HeaderLen == 1 + PublicKeySize + Uint64Size + SignatureSize + Uint64Size + 1

\* a stored link: the header with the IV-length byte ivLen, and rest after it
Envelope(ivLen, rest) ==
    [i \in 1..(HeaderLen - 1) |-> (3 * i) % 256] \o <<ivLen>> \o rest

\* the IV-length bytes and the numbers of bytes stored after them
IVLengths == (0..MaxIV) \cup {IVSizeLimit - 1, IVSizeLimit, 255}
RestLengths == (0..(MaxIV + 1)) \cup {IVSizeLimit - 1, IVSizeLimit}

\* the raw stored bytes: the header broken off anywhere, and whole headers
\* with more or fewer bytes after them than the IV-length byte says
RawLinks ==
    {SubSeq(Envelope(0, <<>>), 1, n) : n \in 0..HeaderLen}
    \cup {Envelope(d, [i \in 1..n |-> 255 - i]) : d \in IVLengths, n \in RestLengths}

\* the decrypted content of the links: a target, no Reference at all, and a
\* Reference without a blob name
LinkContents == {EntrypointMarshal(linkTargetEP), Garbage, AppendBytes(3, TextPlain)}

(***************************************************************************)
(* The HTTP handler: buildAnalyzerHttpHandler and its routes.  A request   *)
(* is served in two steps where it holds a reader on a blob: up to the     *)
(* Open of the blob, and from the read of the content to the response.     *)
(***************************************************************************)
Requests == {"r1", "r2"}

RouteRoot == "/"
RouteEP == "/ep/"
RouteDetails == "/api/html/details/"
RouteAPI == "/api/ep/"
Routes == {RouteRoot, RouteEP, RouteDetails, RouteAPI}

StatusOK == 200
StatusTemporaryRedirect == 307
StatusInternalServerError == 500

\* how the write of a response ends: "ok", "failed" where the template fails
\* before a byte of the response is written, and "broken" where it fails
\* after the status line has gone out
Renders == {"ok", "failed", "broken"}

\* the locations of a datastore: the one of the fixtures, the one of an
\* empty AnalyzerConfig, and the folder that does not exist of root_test.go
GoodAddr == "memory://"
BadAddr == ""
NoFolderAddr == "/non-existing/folder"
\* the default entrypoints: the root directory, and a text that is none
Entrypoints == {toEPString(rootEP), <<110, 111, 116, 45, 64, 35>>}
Configs ==
    {[DatastoreAddr |-> a, Entrypoint |-> toEPString(rootEP)] :
        a \in {GoodAddr, BadAddr, NoFolderAddr}}
    \cup {[DatastoreAddr |-> GoodAddr, Entrypoint |-> e] : e \in Entrypoints}

\* the configuration of the test server
TestConfig == [DatastoreAddr |-> GoodAddr, Entrypoint |-> toEPString(rootEP)]

\* "/ep/"
EPPath == <<47, 101, 112, 47>>

\* url.PathEscape: letters, digits and - _ . ~ $ & + : = @ stay as they are
Unescaped(c) ==
    \/ c \in 48..57 \/ c \in 65..90 \/ c \in 97..122
    \/ c \in {45, 95, 46, 126, 36, 38, 43, 58, 61, 64}
\* the digit d of "0123456789ABCDEF"
UpperHex(d) == IF d < 10 THEN 48 + d ELSE 55 + d
PathEscape(t) ==
    Concat([i \in 1..Len(t) |->
              IF Unescaped(t[i]) THEN <<t[i]>>
              ELSE <<37, UpperHex(t[i] \div 16), UpperHex(t[i] % 16)>>])

\* the path of a URL reference: what stands before the first ? or #
PathOf(u) ==
    IF \A i \in 1..Len(u) : u[i] \notin {35, 63} THEN u
    ELSE SubSeq(u, 1, CountLeading([i \in 1..Len(u) |-> u[i] \notin {35, 63}], TRUE))
\* the value of a hexadecimal digit
UnHex(c) == IF c \in 48..57 THEN c - 48 ELSE IF c \in 65..70 THEN c - 55 ELSE c - 87
\* r.URL.Path: the path with every %XX replaced by its byte
PathUnescape(u) ==
    Concat([i \in 1..Len(u) |->
              IF (i > 1 /\ u[i - 1] = 37) \/ (i > 2 /\ u[i - 2] = 37) THEN <<>>
              ELSE IF u[i] = 37 /\ i + 2 <= Len(u)
              THEN <<16 * UnHex(u[i + 1]) + UnHex(u[i + 2])>>
              ELSE <<u[i]>>])

ErrDatastore == "could not create main datastore"
\* the error of the datastore library for a location it cannot open
ErrLocation == "datastore location can not be opened"

\* datastore.FromLocation: the datastore, or the error of the location
FromLocation(addr) ==
    IF addr = GoodAddr THEN [ds |-> <<addr>>, err |-> ""]
    ELSE [ds |-> <<>>, err |-> ErrLocation]

\* fmt.Errorf(msg + ": %w", err): the message and the error it wraps
Wrap(msg, err) == <<msg, err>>

\* what buildAnalyzerHttpHandler has returned: nothing yet
NotBuilt == [built |-> FALSE, mux |-> <<>>, err |-> <<>>]

VARIABLES
    cfg,        \* the AnalyzerConfig the process was started with
    store,      \* the state (a name of Stores) of the datastore at cfg.DatastoreAddr
    clients,    \* the clients that send requests, each one request at a time
    handler,    \* what buildAnalyzerHttpHandler returned: the handler (nil, or
                \* the routes it serves) and the error
    req,        \* per request: its position, input, view so far, reader, number
                \* of be.Open calls and response
    link        \* the inspection of a link on its own: its position, the two
                \* inputs, the two results, and the outcomes met so far

vars == <<cfg, store, clients, handler, req, link>>

Idle ==
    [pc |-> "idle", route |-> RouteRoot, eps |-> <<>>, view |-> ZeroEPData([Entrypoint |-> <<>>]),
     reader |-> <<>>, opens |-> 0, render |-> "", status |-> 0, location |-> <<>>,
     redirected |-> FALSE]

\* no link being inspected on its own
NoLink ==
    [pc |-> "none", content |-> <<>>, rawBytes |-> <<>>, Link |-> ZeroParsedEP,
     LinkData |-> NoLinkData, seen |-> {}]

Init ==
    /\ cfg \in Configs
    /\ store \in Stores
    /\ clients = {"r1"}
    /\ handler = NotBuilt
    /\ req = [r \in Requests |-> Idle]
    /\ link = NoLink

\* the routes registered whether or not the datastore was opened
builtUnchecked(o) == [built |-> TRUE, mux |-> <<Routes>>, err |-> <<>>]

\* lines 50-245: no handler and the wrapped error, or the routes and no error
built(o) ==
    IF o.err # "" THEN [built |-> TRUE, mux |-> <<>>, err |-> Wrap(ErrDatastore, o.err)]
    ELSE [built |-> TRUE, mux |-> <<Routes>>, err |-> <<>>]

\* buildAnalyzerHttpHandler: opens the datastore and registers the routes
BuildHandler ==
    /\ handler = NotBuilt
    /\ handler' = built(FromLocation(cfg.DatastoreAddr))
    /\ UNCHANGED <<cfg, store, clients, req, link>>

\* a GET of route ++ eps arrives
Receive(r, route, eps) ==
    /\ handler.mux # <<>>
    /\ route \in handler.mux[1]
    /\ r \in clients
    /\ req[r].pc = "idle"
    /\ req' = [req EXCEPT ![r] = [Idle EXCEPT !.pc = "recv", !.route = route, !.eps = eps]]
    /\ UNCHANGED <<cfg, store, clients, handler, link>>

\* the default entrypoint put into the URL as it is
redirectURLPlain(entrypoint) == EPPath \o entrypoint

\* lines 59-60: "/ep/" + url.PathEscape(cfg.Entrypoint)
redirectURL(entrypoint) == EPPath \o PathEscape(entrypoint)

\* http.RedirectHandler(redirectURL, 307)
Redirect(r) ==
    /\ req[r].pc = "recv"
    /\ req[r].route = RouteRoot
    /\ req' = [req EXCEPT ![r].pc = "done", ![r].status = StatusTemporaryRedirect,
                          ![r].location = redirectURL(cfg.Entrypoint)]
    /\ UNCHANGED <<cfg, store, clients, handler, link>>

\* the client follows the redirect, as http.Get does: the request for the
\* path of the Location, which the server unescapes
Follow(r) ==
    /\ req[r].pc = "done"
    /\ req[r].status = StatusTemporaryRedirect
    /\ HasPrefix(PathUnescape(PathOf(req[r].location)), EPPath)
    /\ req' = [req EXCEPT ![r] =
                [Idle EXCEPT !.pc = "recv", !.route = RouteEP, !.redirected = TRUE,
                             !.eps = SubSeq(PathUnescape(PathOf(req[r].location)),
                                            Len(EPPath) + 1,
                                            Len(PathUnescape(PathOf(req[r].location))))]]
    /\ UNCHANGED <<cfg, store, clients, handler, link>>

\* lines 227-228, 233-234 and 238-241: FailResponseOnError answers for a
\* template that failed with nothing written; the error of Encode is dropped
statusOf(route, render) ==
    IF route # RouteAPI /\ render = "failed" THEN StatusInternalServerError
    ELSE StatusOK

\* the response with the JSON document written from the parsed text alone,
\* not from the view the content was added to
answerPerRoute(q, view, render) ==
    [q EXCEPT !.pc = "done",
              !.view = IF q.route = RouteAPI
                       THEN [view EXCEPT !.ContentLen = 0, !.Link = ZeroParsedEP,
                                         !.Text = <<>>]
                       ELSE view,
              !.render = IF q.route = RouteAPI THEN "ok" ELSE render,
              !.status = statusOf(q.route, render)]

\* the response with an error status for a view that holds an error
answerByView(q, view, render) ==
    [q EXCEPT !.pc = "done", !.view = view,
              !.render = IF q.route = RouteAPI THEN "ok" ELSE render,
              !.status = IF view.EP.Err # "" \/ view.ContentErr # ""
                         THEN StatusInternalServerError
                         ELSE statusOf(q.route, render)]

\* the response written from the view; the JSON document is written whole
answer(q, view, render) ==
    [q EXCEPT !.pc = "done", !.view = view,
              !.render = IF q.route = RouteAPI THEN "ok" ELSE render,
              !.status = statusOf(q.route, render)]

\* the request q having called be.Open as often as o says
countOpen(q, o) == [q EXCEPT !.opens = @ + o.calls]

\* the request q with the text parsed and the blob opened as o
beginOpened(q, parsed, o, render) ==
    IF o.err # ""
    THEN answer(countOpen(q, o), [parsed EXCEPT !.ContentErr = o.err], render)
    ELSE [countOpen(q, o) EXCEPT !.pc = "opened", !.view = parsed, !.reader = o.reader]

\* the request q with the text parsed
beginParsed(q, parsed, st, render) ==
    IF parsed.EP.Err # "" THEN answer(q, parsed, render)
    ELSE beginOpened(q, parsed, openBlob(st, parsed.EP.EP), render)

\* the text of another request in flight, where there is one: a text kept
\* in a variable the handlers share
textOfAny(r) ==
    IF \E q \in clients \ {r} : req[q].pc # "idle"
    THEN req[CHOOSE q \in clients \ {r} : req[q].pc # "idle"].eps
    ELSE req[r].eps

\* lines 225, 231 and 238: strings.TrimPrefix(r.URL.Path, route), the text
\* of the request's own URL
textOf(r) == req[r].eps

\* extractParams up to be.Open in readBlob: the request is answered at once
\* when it opens no reader
Begin(r) ==
    /\ req[r].pc = "recv"
    /\ req[r].route # RouteRoot
    /\ \E render \in Renders :
          req' = [req EXCEPT ![r] =
                    IF textOf(r) = <<>>
                    THEN answer(req[r], missingEntrypoint(cfg), render)
                    ELSE beginParsed(req[r], parsedEntrypoint(cfg, textOf(r)),
                                     Content(store), render)]
    /\ UNCHANGED <<cfg, store, clients, handler, link>>

\* the request with the reader left open where the read failed
closedOnSuccess(q, blob) == IF blob.err # "" THEN q ELSE [q EXCEPT !.reader = <<>>]

\* line 153: the deferred Close, run when readBlob returns
closed(q, blob) == [q EXCEPT !.reader = <<>>]

\* the request q with the blob read
finished(q, blob, render) == answer(closed(q, blob), afterRead(q.view, blob), render)

\* io.ReadAll and the deferred Close, the rest of extractParams, and the
\* response written from the view
Finish(r) ==
    /\ req[r].pc = "opened"
    /\ \E render \in Renders :
          req' = [req EXCEPT ![r] =
                    finished(req[r], ReadAll(Content(store), req[r].reader[1]), render)]
    /\ UNCHANGED <<cfg, store, clients, handler, link>>

\* the client has read the response
Collect(r) ==
    /\ req[r].pc = "done"
    /\ req' = [req EXCEPT ![r] = Idle]
    /\ UNCHANGED <<cfg, store, clients, handler, link>>

Next ==
    \/ BuildHandler
    \/ \E r \in Requests, eps \in Texts : \E route \in Routes \ {RouteRoot} :
          Receive(r, route, eps)
    \/ \E r \in Requests : Receive(r, RouteRoot, <<>>)
    \/ \E r \in Requests : Redirect(r)
    \/ \E r \in Requests : Follow(r)
    \/ \E r \in Requests : Begin(r)
    \/ \E r \in Requests : Finish(r)
    \/ \E r \in Requests : Collect(r)

Spec == Init /\ [][Next]_vars

(***************************************************************************)
(* Two clients at once: their requests are received, begun and finished in *)
(* any order.  The texts are a few of Texts: one that is read, a link, one *)
(* that is not stored, and no text.                                        *)
(***************************************************************************)
ConcurrentTexts == {toEPString(textEP), toEPString(linkEP), toEPString(missingEP), <<>>}

InitTwo ==
    /\ cfg = TestConfig
    /\ store \in Stores
    /\ clients = Requests
    /\ handler = NotBuilt
    /\ req = [r \in Requests |-> Idle]
    /\ link = NoLink

NextTwo ==
    \/ BuildHandler
    \/ \E r \in Requests, eps \in ConcurrentTexts : \E route \in Routes \ {RouteRoot} :
          Receive(r, route, eps)
    \/ \E r \in Requests : Begin(r)
    \/ \E r \in Requests : Finish(r)
    \/ \E r \in Requests : Collect(r)

SpecTwo == InitTwo /\ [][NextTwo]_vars

(***************************************************************************)
(* The inspection of a link on its own, over the raw stored bytes and the  *)
(* decrypted content a link blob may hold.                                 *)
(***************************************************************************)
InitLink ==
    /\ cfg = TestConfig
    /\ store = "full"
    /\ clients = {}
    /\ handler = NotBuilt
    /\ req = [r \in Requests |-> Idle]
    /\ \E content \in LinkContents, rawBytes \in RawLinks :
          link = [NoLink EXCEPT !.pc = "stored", !.content = content,
                                !.rawBytes = rawBytes]

\* which of the two steps succeeded
Outcome(l) == <<l.Link.Err = "", l.LinkData.err = "">>

\* the link with the two results noted
inspected(l, res) ==
    [l EXCEPT !.pc = "inspected", !.Link = res.Link, !.LinkData = res.LinkData,
              !.seen = @ \cup {Outcome(res)}]

\* the link blob is inspected
InspectLink ==
    /\ link.pc = "stored"
    /\ link' = inspected(link, inspectLink(link.content, link.rawBytes))
    /\ UNCHANGED <<cfg, store, clients, handler, req>>

\* another link blob is stored
StoreLink(content, rawBytes) ==
    /\ link.pc = "inspected"
    /\ link' = [NoLink EXCEPT !.pc = "stored", !.content = content,
                              !.rawBytes = rawBytes, !.seen = link.seen]
    /\ UNCHANGED <<cfg, store, clients, handler, req>>

NextLink ==
    \/ InspectLink
    \/ \E content \in LinkContents, rawBytes \in RawLinks : StoreLink(content, rawBytes)

SpecLink == InitLink /\ [][NextLink]_vars

\* the views of the answered requests
Answered(r) == req[r].pc = "done" /\ req[r].route # RouteRoot

(***************************************************************************)
(* Properties                                                              *)
(***************************************************************************)
\* the stored content of the blob a view is about
StoredContent(v) == Content(store)[v.EP.BN[1]].content

\* a view whose text parsed and whose content was read
Read(v) == v.EP.Err = "" /\ v.ContentErr = ""

LinkSet(v) == v.Link # ZeroParsedEP
DirSet(v) == v.DirErr # "" \/ v.DirContent # <<>>
ImageSet(v) == v.Image # <<>>
TextSet(v) == v.Text # <<>>

\* how many of the four type-specific payloads a view holds
Payloads(v) ==
    (IF LinkSet(v) THEN 1 ELSE 0) + (IF DirSet(v) THEN 1 ELSE 0)
    + (IF ImageSet(v) THEN 1 ELSE 0) + (IF TextSet(v) THEN 1 ELSE 0)

\* C1: every view holds at most one of Link, DirContent/DirErr, Image and
\* Text, chosen by the precedence link > directory > image/ > text/: a
\* payload is held only by an entry of its kind that is of no kind before
\* it, and a link that declares the directory MIME type holds its Link only.
C1_Precedence ==
    \A r \in Requests : Answered(r) =>
        LET v == req[r].view
        IN  /\ Payloads(v) <= 1
            /\ LinkSet(v) => v.EP.IsLink
            /\ DirSet(v) => ~v.EP.IsLink /\ v.EP.IsDir
            /\ ImageSet(v) => /\ ~v.EP.IsLink /\ ~v.EP.IsDir
                              /\ HasPrefix(v.EP.MimeType, ImagePrefix)
            /\ TextSet(v) => /\ ~v.EP.IsLink /\ ~v.EP.IsDir
                             /\ ~HasPrefix(v.EP.MimeType, ImagePrefix)
                             /\ HasPrefix(v.EP.MimeType, TextPrefix)
            /\ (Read(v) /\ v.EP.IsLink /\ v.EP.IsDir) =>
                    LinkSet(v) /\ ~DirSet(v) /\ ~ImageSet(v) /\ ~TextSet(v)

\* a view of a dynamic link with the directory MIME type, its content read
C1_Witness ==
    \E r \in Requests :
        /\ Answered(r) /\ Read(req[r].view)
        /\ req[r].view.EP.IsLink /\ req[r].view.EP.IsDir
        /\ LinkSet(req[r].view)

\* a ParsedEP is an error alone, or an entry with no error
OneOrOther(p) ==
    \/ p.Err # "" /\ p = [ZeroParsedEP EXCEPT !.Err = p.Err]
    \/ p.Err = "" /\ p.EP # <<>> /\ p.Str # <<>> /\ p.BN # <<>>

\* the ParsedEPs a view holds: its entry, its link target, its directory entries
Produced(v) ==
    {v.EP} \cup (IF Read(v) /\ v.EP.IsLink THEN {v.Link} ELSE {})
           \cup {v.DirContent[i] : i \in 1..Len(v.DirContent)}

\* C2: every ParsedEP produced is one or the other, never partial: an error
\* with every other field zero, or no error with EP, Str and BN set; bytes
\* that fail to decode give the first, with the message of the decoder.
C2_OneOrOther ==
    \A r \in Requests : Answered(r) =>
        LET v == req[r].view
            b == Base58Decode(req[r].eps)
        IN  /\ \A p \in Produced(v) : OneOrOther(p)
            /\ (req[r].eps # <<>> /\ Base58Encode(b) = req[r].eps
                    /\ EntrypointUnmarshal(b).err # "") =>
                  v.EP = [ZeroParsedEP EXCEPT !.Err = EntrypointUnmarshal(b).err]
            /\ (Read(v) /\ v.EP.IsLink /\ EntrypointUnmarshal(StoredContent(v)).err # "") =>
                  v.Link = [ZeroParsedEP EXCEPT
                                !.Err = EntrypointUnmarshal(StoredContent(v)).err]

\* the view of a text whose bytes break off after the fields of a Reference
C2_Witness ==
    \E r \in Requests :
        /\ Answered(r)
        /\ req[r].view.EP.Err = ErrParse
        /\ EntrypointUnmarshal(Base58Decode(req[r].eps)).msg.BlobName # <<>>

\* the text of a request round-trips through Base58
RoundTrips(t) == Base58Encode(Base58Decode(t)) = t

\* the bytes b are what the Reference they decode to marshals to
Canonical(b) ==
    EntrypointUnmarshal(b).err = "" /\ EntrypointMarshal(EntrypointUnmarshal(b).msg) = b

\* C3 (as stated): for every text t that decodes (EP.Err is empty), EP.Str
\* equals t exactly.
C3_Original ==
    \A r \in Requests :
        (Answered(r) /\ req[r].view.EP.Err = "") => req[r].view.EP.Str = req[r].eps

\* C3 (amended): for every text t that decodes, EP.Str is the text of the
\* canonical bytes of the decoded Reference: it equals t exactly when the
\* bytes of t are those canonical bytes, and it is a text that resolves to
\* the same entry, with itself as Str.
C3_RoundTrip ==
    \A r \in Requests :
        (Answered(r) /\ req[r].view.EP.Err = "") =>
            /\ Canonical(Base58Decode(req[r].eps)) => req[r].view.EP.Str = req[r].eps
            /\ Canonical(Base58Decode(req[r].view.EP.Str))
            /\ getParsedEPFromString(req[r].view.EP.Str, <<>>) = req[r].view.EP

\* the view of the canonical text of the text file
C3_Witness ==
    \E r \in Requests :
        /\ Answered(r) /\ req[r].view.EP.Err = ""
        /\ Canonical(Base58Decode(req[r].eps))
        /\ req[r].view.EP.Str = req[r].eps
        /\ req[r].view.EP.MimeType = TextPlain

\* C4: a text whose Base58 decoding does not encode to the same text gets
\* the error "invalid entrypoint - not a base58 data" and nothing else: no
\* field of a decoded Reference, no call of the store.
C4_NotBase58 ==
    \A r \in Requests :
        (Answered(r) /\ ~RoundTrips(req[r].eps)) =>
            /\ req[r].view =
                  [ZeroEPData(cfg) EXCEPT !.EP = [ZeroParsedEP EXCEPT !.Err = ErrNotBase58]]
            /\ req[r].opens = 0
            /\ req[r].reader = <<>>

\* the view of a text with a character outside the alphabet after a valid text
C4_Witness ==
    \E r \in Requests :
        /\ Answered(r)
        /\ req[r].eps = toEPString(textEP) \o <<48>>
        /\ req[r].view.EP.Err = ErrNotBase58

\* C5: no text gets the error "Missing entrypoint data" with no content
\* field set and no call of the store; the text is not decoded (decoding it
\* would give the error of an empty blob name).
C5_MissingEntrypoint ==
    \A r \in Requests :
        (Answered(r) /\ req[r].eps = <<>>) =>
            /\ req[r].view =
                  [ZeroEPData(cfg) EXCEPT
                      !.EP = [ZeroParsedEP EXCEPT !.Err = ErrMissingEntrypoint]]
            /\ req[r].opens = 0
            /\ req[r].reader = <<>>

\* the view of no text
C5_Witness ==
    \E r \in Requests :
        /\ Answered(r) /\ req[r].eps = <<>>
        /\ req[r].view.EP.Err = ErrMissingEntrypoint

\* the blob a resolved view is about is not in the store, or not under its key
NotStored(v) == v.EP.BN[1] \notin DOMAIN Content(store)
WrongKey(v) == ~NotStored(v) /\ Content(store)[v.EP.BN[1]].key # GetKey(v.EP.EP)

\* C6: when the store does not supply the blob the view carries the failure
\* in ContentErr and nothing of the content: the dump is empty, ContentLen
\* is 0, Link, DirErr, DirContent, Image and Text are empty, and EP is the
\* resolved entry with its Str.
C6_ContentErr ==
    \A r \in Requests : Answered(r) =>
        LET v == req[r].view
        IN  /\ v.ContentErr # "" =>
                /\ v = [ZeroEPData(cfg) EXCEPT !.EP = v.EP, !.ContentErr = v.ContentErr]
                /\ v.EP.Err = "" /\ v.EP.Str # <<>> /\ v.EP.EP # <<>>
                /\ NotStored(v) \/ WrongKey(v)
            /\ (v.EP.Err = "" /\ NotStored(v)) => v.ContentErr = ErrNotFound
            /\ (v.EP.Err = "" /\ WrongKey(v)) => v.ContentErr = ErrInvalidKey

\* the view of a stored blob read under a key that is not its key
C6_Witness ==
    \E r \in Requests :
        /\ Answered(r)
        /\ req[r].view.ContentErr = ErrInvalidKey
        /\ req[r].view.EP.Str = req[r].eps
        /\ Len(StoredContent(req[r].view)) > 1

\* a view of a directory that is no link, its content read
DirRead(v) == Read(v) /\ ~v.EP.IsLink /\ v.EP.IsDir

\* C7: a directory whose content was read but does not decode as a
\* Directory has DirErr set to the decoder's message, while ContentErr is
\* empty and ContentHexDump and ContentLen are those of the content read.
C7_DirErr ==
    \A r \in Requests : Answered(r) =>
        LET v == req[r].view
        IN  /\ (DirRead(v) /\ DirectoryUnmarshal(StoredContent(v)).err # "") =>
                    v.DirErr = DirectoryUnmarshal(StoredContent(v)).err
            /\ v.DirErr # "" =>
                /\ DirRead(v)
                /\ v.ContentLen = Len(StoredContent(v))
                /\ v.ContentLen > 0
                /\ Len(v.ContentHexDump.cells) = v.ContentLen
                /\ \A k \in 1..v.ContentLen :
                      v.ContentHexDump.cells[k] =
                          Hex02(StoredContent(v)[k]) \o Separator(k - 1)

\* the view of the directory whose content is no Directory
C7_Witness ==
    \E r \in Requests :
        /\ Answered(r)
        /\ req[r].eps = toEPString(brokenDirEP)
        /\ req[r].view.DirErr = ErrParse
        /\ req[r].view.ContentLen = Len(Garbage)

\* C8: the dump has one cell for each of the first min(len, 2048) bytes of
\* the content, the two hex digits of the byte and a separator; no suffix
\* for a content of at most 2048 bytes, and for a content of L > 2048 bytes
\* the suffix "(N more)" with N = L - 2048.
C8_HexDump ==
    \A r \in Requests : (Answered(r) /\ Read(req[r].view)) =>
        LET v == req[r].view
            L == Len(StoredContent(v))
        IN  /\ maxBytesDump = 2048
            /\ v.ContentLen = L
            /\ Len(v.ContentHexDump.cells) = Min(L, 2048)
            /\ \A k \in 1..Len(v.ContentHexDump.cells) :
                  v.ContentHexDump.cells[k] \in
                      {Hex02(StoredContent(v)[k]) \o sep : sep \in {" ", "  ", "\n"}}
            /\ L <= 2048 => v.ContentHexDump.suffix = <<>>
            /\ L > 2048 => v.ContentHexDump.suffix = <<L - 2048>>

\* the view of the file of 2048 + MaxExtra bytes
C8_Witness ==
    \E r \in Requests :
        /\ Answered(r) /\ Read(req[r].view)
        /\ req[r].view.ContentLen = 2048 + MaxExtra
        /\ Len(req[r].view.ContentHexDump.cells) = 2048
        /\ req[r].view.ContentHexDump.suffix = <<MaxExtra>>

\* the directory a view of a decodable directory is about, as it was stored
Declared(v) == DirectoryUnmarshal(StoredContent(v)).msg.Entries

\* a view of a directory that is no link, its content read and decoded
DirDecoded(v) == DirRead(v) /\ DirectoryUnmarshal(StoredContent(v)).err = ""

\* C9 (as stated): a directory whose content decodes has one DirContent
\* entry per declared entry, in declaration order, each with the declared
\* name.
C9_Original ==
    \A r \in Requests : (Answered(r) /\ DirDecoded(req[r].view)) =>
        /\ Len(req[r].view.DirContent) = Len(Declared(req[r].view))
        /\ \A i \in 1..Len(req[r].view.DirContent) :
              req[r].view.DirContent[i].Name = Declared(req[r].view)[i].Name

\* C9 (amended): a directory whose content decodes has one DirContent
\* entry per declared entry, in declaration order; an entry whose Reference
\* resolves has the declared name and Reference, whether its blob is stored
\* or not, and an entry whose Reference does not resolve has its error only.
C9_DirContent ==
    \A r \in Requests : (Answered(r) /\ DirDecoded(req[r].view)) =>
        LET v == req[r].view
        IN  /\ Len(v.DirContent) = Len(Declared(v))
            /\ \A i \in 1..Len(v.DirContent) :
                  IF BlobNameFromBytes(Deref(Declared(v)[i].Ep).BlobName).err = ""
                  THEN /\ v.DirContent[i].Err = ""
                       /\ v.DirContent[i].Name = Declared(v)[i].Name
                       /\ v.DirContent[i].EP = Declared(v)[i].Ep
                  ELSE v.DirContent[i] =
                          [ZeroParsedEP EXCEPT !.Err = v.DirContent[i].Err]
            /\ v.EP.BN[1] = rootEP.BlobName =>
                  [i \in 1..Len(v.DirContent) |-> v.DirContent[i].Name] =
                      [i \in 1..Len(RootDir.Entries) |-> RootDir.Entries[i].Name]

\* the view of the root directory, with the entry "m" whose blob is not stored
C9_Witness ==
    \E r \in Requests :
        /\ Answered(r) /\ DirDecoded(req[r].view)
        /\ req[r].eps = toEPString(rootEP)
        /\ Len(req[r].view.DirContent) = Len(RootDir.Entries)
        /\ \E i \in 1..Len(req[r].view.DirContent) :
              /\ req[r].view.DirContent[i].Name = Name(109)
              /\ req[r].view.DirContent[i].EP = <<missingEP>>
              /\ req[r].view.DirContent[i].BN[1] \notin DOMAIN Content(store)

\* C10: a dynamic link whose content was read has IsLink set and, as Link,
\* the entry of the Reference its content decodes to, so that Link.Str is
\* the reference text of the target; when the content does not decode,
\* Link.Err is set and ContentHexDump and ContentLen are those of the content.
C10_Link ==
    \A r \in Requests : Answered(r) =>
        LET v == req[r].view
        IN  /\ v.EP.Err = "" => (v.EP.IsLink <=> BlobType(v.EP.BN[1]) = DynamicLink)
            /\ (Read(v) /\ v.EP.IsLink) =>
                /\ v.ContentLen = Len(StoredContent(v))
                /\ Len(v.ContentHexDump.cells) = Min(v.ContentLen, maxBytesDump)
                /\ EntrypointUnmarshal(StoredContent(v)).err # "" =>
                      v.Link.Err = EntrypointUnmarshal(StoredContent(v)).err
                /\ v.Link.Err = "" =>
                      /\ v.Link.EP = <<EntrypointUnmarshal(StoredContent(v)).msg>>
                      /\ Canonical(StoredContent(v)) =>
                            v.Link.Str = Base58Encode(StoredContent(v))
            /\ (Read(v) /\ v.EP.BN[1] = linkEP.BlobName) =>
                  v.EP.IsLink /\ v.Link.Err = "" /\ v.Link.Str = toEPString(linkTargetEP)

\* the view of the link, and what it says of its target
C10_Witness ==
    \E r \in Requests :
        /\ Answered(r) /\ Read(req[r].view)
        /\ req[r].eps = toEPString(linkEP)
        /\ req[r].view.EP.IsLink
        /\ req[r].view.Link.Str = toEPString(linkTargetEP)
        /\ req[r].view.Link.MimeType = linkTargetEP.MimeType

\* the link blobs that were inspected
Inspected == link.pc = "inspected"
\* the IV-length byte of raw stored bytes that hold a whole header
IVLengthByte(rawBytes) == rawBytes[HeaderLen]
\* the bytes of rawBytes from the byte after the first `before' bytes, n of them
Field(rawBytes, before, n) == SubSeq(rawBytes, before + 1, before + n)

C12_FixedOrder ==
    Inspected =>
        LET raw == link.rawBytes
            d == link.LinkData
        IN  /\ Len(raw) < HeaderLen => d.err = ErrTruncatedLinkPayload
            /\ (/\ Len(raw) >= HeaderLen
                /\ IVLengthByte(raw) < IVSizeLimit
                /\ Len(raw) < HeaderLen + IVLengthByte(raw)) =>
                  d.err = ErrTruncatedLinkPayload
            /\ d.err # "" => d.payload = ZeroLinkPayload
            /\ d.err = "" =>
                  /\ Len(raw) >= HeaderLen + IVLengthByte(raw)
                  /\ d.payload.LinkVersion = raw[1]
                  /\ d.payload.PublicKey = Field(raw, 1, PublicKeySize)
                  /\ d.payload.Nonce = Field(raw, 1 + PublicKeySize, Uint64Size)
                  /\ d.payload.Signature =
                        Field(raw, 1 + PublicKeySize + Uint64Size, SignatureSize)
                  /\ d.payload.ContentVersion =
                        Field(raw, 1 + PublicKeySize + Uint64Size + SignatureSize,
                              Uint64Size)
                  /\ d.payload.IV = Field(raw, HeaderLen, IVLengthByte(raw))
                  /\ d.consumed = HeaderLen + IVLengthByte(raw)

\* raw bytes that end inside the IV: the error, and none of the fields read
\* before it
C12_Witness ==
    /\ Inspected
    /\ Len(link.rawBytes) = HeaderLen + 1
    /\ IVLengthByte(link.rawBytes) = MaxIV
    /\ link.LinkData.err = ErrTruncatedLinkPayload
    /\ link.LinkData.payload = ZeroLinkPayload

\* C13: an IV-length byte of 128 or more gives InvalidIVSize, and no byte
\* after it is consumed, however many bytes follow it.
C13_InvalidIVSize ==
    (/\ Inspected
     /\ Len(link.rawBytes) >= HeaderLen
     /\ IVLengthByte(link.rawBytes) >= IVSizeLimit) =>
        /\ link.LinkData.err = ErrInvalidIVSize
        /\ link.LinkData.consumed = HeaderLen
        /\ link.LinkData.payload = ZeroLinkPayload

\* the IV-length byte 128 with nothing after it: not a truncated payload
C13_Witness ==
    /\ Inspected
    /\ Len(link.rawBytes) = HeaderLen
    /\ IVLengthByte(link.rawBytes) = IVSizeLimit
    /\ link.LinkData.err = ErrInvalidIVSize
    /\ link.LinkData.consumed = HeaderLen

\* the answered requests of the two API routes
API(r) == Answered(r) /\ req[r].route \in {RouteAPI, RouteDetails}

\* C14: whatever the reference text (none, not Base58, malformed, of a blob
\* that is not stored, of a broken link, of a broken directory, valid),
\* /api/ep/ and /api/html/details/ answer with status 200 and the view
\* carries the error as a field; the status is an error status only where
\* the template of /api/html/details/ failed.
C14_StatusOK ==
    \A r \in Requests : API(r) =>
        LET q == req[r]
            v == req[r].view
        IN  /\ q.route = RouteAPI => q.status = StatusOK
            /\ q.render = "ok" => q.status = StatusOK
            /\ q.status # StatusOK =>
                  /\ q.route = RouteDetails
                  /\ q.render = "failed"
                  /\ q.status = StatusInternalServerError
            /\ q.eps = <<>> => v.EP.Err = ErrMissingEntrypoint
            /\ q.eps = <<110, 111, 116, 45, 64, 35>> => v.EP.Err = ErrNotBase58
            /\ q.eps = Repeat(122, 25) => v.EP.Err = ErrParse
            /\ q.eps = toEPString(missingEP) =>
                  v.EP.Err = "" /\ v.ContentErr = ErrNotFound
            /\ (q.eps = toEPString(brokenLinkEP) /\ v.ContentErr = "") =>
                  v.EP.Err = "" /\ v.Link.Err = ErrParse
            /\ (q.eps = toEPString(brokenDirEP) /\ v.ContentErr = "") =>
                  v.EP.Err = "" /\ v.DirErr = ErrParse
            /\ q.eps = toEPString(textEP) =>
                  v.EP.Err = "" /\ v.ContentErr = "" /\ v.Text = <<104, 105>>

\* the JSON document of a text that is not Base58: status 200, and the error
\* in the view
C14_Witness ==
    \E r \in Requests :
        /\ API(r)
        /\ req[r].route = RouteAPI
        /\ req[r].view.EP.Err = ErrNotBase58
        /\ req[r].status = StatusOK

\* C15: a request to /ep/, /api/html/details/ or /api/ep/ is answered from
\* the one view its one call of extractParams returned, blobs being opened
\* once at most: two requests with the same text, answered from the same
\* storage by whichever of the three routes, hold equal views.
C15_OneView ==
    \A r \in clients : Answered(r) =>
        /\ req[r].opens <= 1
        /\ req[r].opens = 1 <=> req[r].view.EP.Err = ""
        /\ \A q \in clients :
              (Answered(q) /\ req[q].eps = req[r].eps) => req[q].view = req[r].view

\* the page and the JSON document of the link, answered side by side
C15_Witness ==
    /\ Answered("r1") /\ Answered("r2")
    /\ req["r1"].route = RouteEP
    /\ req["r2"].route = RouteAPI
    /\ req["r1"].eps = toEPString(linkEP)
    /\ req["r2"].eps = toEPString(linkEP)
    /\ req["r1"].view.Link.Str = toEPString(linkTargetEP)
    /\ req["r2"].view.Link.Str = toEPString(linkTargetEP)

\* C18: requests served at the same time do not affect one another: however
\* the steps of two requests interleave, the view of each is the one
\* extractParams gives for its own text, the configuration the process was
\* started with and the content of the storage.
C18_Independent ==
    \A r \in clients : Answered(r) =>
        req[r].view = extractParams(cfg, Content(store), req[r].eps)

\* a request for a text answered while a request for the link holds its
\* reader
C18_Witness ==
    /\ Answered("r1")
    /\ req["r1"].eps = toEPString(textEP)
    /\ req["r1"].view.Text = <<104, 105>>
    /\ req["r2"].pc = "opened"
    /\ req["r2"].eps = toEPString(linkEP)

\* the Reference a text decodes to, where it does: the text is Base58 and
\* its bytes are the encoding of a Reference
Decodes(t) ==
    t # <<>> /\ RoundTrips(t) /\ EntrypointUnmarshal(Base58Decode(t)).err = ""
Reference(t) == EntrypointUnmarshal(Base58Decode(t)).msg

\* C16 (as stated): the entry of every Reference that binary-decodes
\* successfully has an empty Err: the entry of a reference text, and the
\* entry of the target of a link.
C16_Original ==
    \A r \in Requests : Answered(r) =>
        /\ Decodes(req[r].eps) => req[r].view.EP.Err = ""
        /\ (Read(req[r].view) /\ req[r].view.EP.IsLink
              /\ EntrypointUnmarshal(StoredContent(req[r].view)).err = "") =>
              req[r].view.Link.Err = ""

\* the entry e resolved from the Reference ref
Resolved(e, ref) ==
    IF Len(ref.BlobName) \in 1..MaxBlobNameLen
    THEN e.Err = "" /\ e.EP = <<ref>>
    ELSE e = [ZeroParsedEP EXCEPT !.Err = ErrInvalidBlobName]

\* C16: the entry of a Reference that binary-decodes successfully has an
\* empty Err if the blob name of the Reference is a blob name (of 1 to 127
\* bytes); the entry of a Reference with no blob name, or a longer one, has
\* the Err "invalid blob name" and nothing else.
C16_Resolve ==
    \A r \in Requests : Answered(r) =>
        /\ Decodes(req[r].eps) => Resolved(req[r].view.EP, Reference(req[r].eps))
        /\ (Read(req[r].view) /\ req[r].view.EP.IsLink
              /\ EntrypointUnmarshal(StoredContent(req[r].view)).err = "") =>
              Resolved(req[r].view.Link,
                       EntrypointUnmarshal(StoredContent(req[r].view)).msg)

\* the Reference that declares a MIME type and no blob name
C16_Witness ==
    \E r \in Requests :
        /\ Answered(r)
        /\ req[r].eps = Base58Encode(AppendBytes(3, TextPlain))
        /\ Decodes(req[r].eps)
        /\ req[r].view.EP.Err = ErrInvalidBlobName

\* C17: a request holds a reader only between the Open of its blob and the
\* end of readBlob: the reader is released by the time the response is
\* written, whether the read succeeded, failed midway or was followed by a
\* decode error, and a request that fails before the Open or at it never
\* holds one.
C17_Released ==
    \A r \in Requests :
        /\ req[r].pc = "done" => req[r].reader = <<>>
        /\ req[r].pc \in {"idle", "recv"} => (req[r].reader = <<>> /\ req[r].opens = 0)
        /\ req[r].pc = "opened" => (req[r].reader # <<>> /\ req[r].opens = 1)
        /\ (Answered(r) /\ req[r].view.EP.Err # "") => req[r].opens = 0
        /\ (Answered(r) /\ req[r].view.ContentErr = ErrNotFound) => req[r].opens = 1

\* a read that failed midway, answered with the reader released
C17_Witness ==
    \E r \in Requests :
        /\ Answered(r)
        /\ req[r].eps = toEPString(wrongKeyEP)
        /\ req[r].view.ContentErr = ErrInvalidKey
        /\ req[r].opens = 1
        /\ req[r].reader = <<>>

\* C19: with a storage location that cannot be opened, building the handler
\* returns no handler and the error "could not create main datastore"
\* wrapping the error of the location, and no request is ever served.
C19_NoDatastore ==
    cfg.DatastoreAddr # GoodAddr =>
        /\ handler.built =>
              /\ handler.mux = <<>>
              /\ handler.err = <<ErrDatastore, ErrLocation>>
        /\ \A r \in Requests : req[r] = Idle

\* the empty location of an AnalyzerConfig{}: built, and failed
C19_Witness ==
    /\ cfg.DatastoreAddr = BadAddr
    /\ handler.built
    /\ handler.mux = <<>>
    /\ handler.err[1] = ErrDatastore

\* C20: GET / is answered with the status 307 and the Location "/ep/" and
\* the configured default entrypoint (escaped for a URL path); the request a
\* client makes by following it is the request to /ep/ for that very text,
\* answered with the full page of the view of the configured entrypoint, a
\* page that holds the text as DefaultEP and, for a reference text, as
\* EP.Str.
C20_Redirect ==
    \A r \in Requests :
        /\ (req[r].pc = "done" /\ req[r].route = RouteRoot) =>
              /\ req[r].status = StatusTemporaryRedirect
              /\ req[r].location = EPPath \o PathEscape(cfg.Entrypoint)
              /\ PathUnescape(PathOf(req[r].location)) = EPPath \o cfg.Entrypoint
        /\ req[r].redirected =>
              /\ req[r].route = RouteEP
              /\ req[r].eps = cfg.Entrypoint
        /\ (req[r].redirected /\ req[r].pc = "done") =>
              /\ req[r].render = "ok" => req[r].status = StatusOK
              /\ req[r].view = extractParams(cfg, Content(store), cfg.Entrypoint)
              /\ req[r].view.DefaultEP = cfg.Entrypoint
              /\ req[r].view.EP.Err = "" => req[r].view.EP.Str = cfg.Entrypoint

\* the page of the root directory, reached by following the redirect
C20_Witness ==
    \E r \in Requests :
        /\ req[r].redirected
        /\ req[r].pc = "done"
        /\ req[r].status = StatusOK
        /\ req[r].render = "ok"
        /\ cfg.Entrypoint = toEPString(rootEP)
        /\ req[r].view.EP.Str = toEPString(rootEP)
        /\ req[r].view.EP.IsDir
        /\ req[r].view.DirContent # <<>>

\* the number of line breaks of a dump
LineBreaks(dump, content) ==
    Cardinality({k \in 1..Len(dump.cells) : dump.cells[k] = Hex02(content[k]) \o "\n"})

\* C21: each dumped byte is written as its two hex digits and exactly one
\* separator: a line break after every 32nd byte, else two spaces after
\* every 8th byte, else one space; so the dump of n <= 2048 bytes has
\* n div 32 line breaks, the 32nd byte being followed by a line break and
\* not by two spaces.
C21_Separators ==
    \A r \in Requests : (Answered(r) /\ Read(req[r].view)) =>
        LET v == req[r].view
            content == StoredContent(req[r].view)
        IN  /\ \A k \in 1..Len(v.ContentHexDump.cells) :
                  v.ContentHexDump.cells[k] =
                      Hex02(content[k]) \o
                          (IF k % 32 = 0 THEN "\n" ELSE IF k % 8 = 0 THEN "  " ELSE " ")
            /\ Len(content) <= 2048 =>
                  /\ Len(v.ContentHexDump.cells) = Len(content)
                  /\ LineBreaks(v.ContentHexDump, content) = Len(content) \div 32

\* the dump of the file of 2048 bytes: 64 line breaks, one after the 32nd
\* byte and one after the last, and two spaces after the 8th byte
C21_Witness ==
    \E r \in Requests :
        /\ Answered(r) /\ Read(req[r].view)
        /\ req[r].eps = toEPString(exactFileEP)
        /\ req[r].view.ContentLen = 2048
        /\ req[r].view.ContentHexDump.cells[8] = "08  "
        /\ req[r].view.ContentHexDump.cells[32] = "20\n"
        /\ req[r].view.ContentHexDump.cells[2048] = "00\n"
        /\ LineBreaks(req[r].view.ContentHexDump, StoredContent(req[r].view)) = 64

\* the place of the character c in the alphabet of base64, counted from 0
StdValue(c) == (CHOOSE k \in 1..64 : StdAlphabet[k] = c) - 1

\* byte i of what the unpadded base64 text b stands for
Base64Byte(b, i) ==
    LET at == 4 * ((i - 1) \div 3) + ((i - 1) % 3) + 1
        hi == StdValue(b[at])
        lo == StdValue(b[at + 1])
    IN  IF (i - 1) % 3 = 0 THEN (hi * 4 + lo \div 16) % 256
        ELSE IF (i - 1) % 3 = 1 THEN ((hi % 16) * 16 + lo \div 4) % 256
        ELSE ((hi % 4) * 64 + lo) % 256

\* b is the unpadded base64 text of content
IsBase64Of(b, content) ==
    /\ Len(b) = (4 * Len(content) + 2) \div 3
    /\ \A j \in 1..Len(b) : \E k \in 1..64 : StdAlphabet[k] = b[j]
    /\ \A i \in 1..Len(content) : Base64Byte(b, i) = content[i]

\* C22: of a reference that is neither a link nor a directory and whose
\* content was read, the view holds the unpadded base64 text of the whole
\* content as Image and no Text if the MIME type starts with image/, the
\* content byte for byte as Text and no Image if it starts with text/, and
\* neither otherwise, the dump and the length being all it says of the
\* content.
C22_ImageText ==
    \A r \in Requests :
        (Answered(r) /\ Read(req[r].view) /\ ~req[r].view.EP.IsLink
                     /\ ~req[r].view.EP.IsDir) =>
            LET v == req[r].view
                content == StoredContent(req[r].view)
            IN  /\ v.ContentLen = Len(content)
                /\ v.Link = ZeroParsedEP /\ v.DirErr = "" /\ v.DirContent = <<>>
                /\ IF HasPrefix(v.EP.MimeType, <<105, 109, 97, 103, 101, 47>>)
                   THEN IsBase64Of(v.Image, content) /\ v.Text = <<>>
                   ELSE IF HasPrefix(v.EP.MimeType, <<116, 101, 120, 116, 47>>)
                   THEN v.Text = content /\ v.Image = <<>>
                   ELSE v.Text = <<>> /\ v.Image = <<>>

\* the image of seven bytes as "AQIDBAUGBw"
C22_Witness ==
    \E r \in Requests :
        /\ Answered(r) /\ Read(req[r].view)
        /\ req[r].eps = toEPString(imageEP)
        /\ req[r].view.Image = <<65, 81, 73, 68, 66, 65, 85, 71, 66, 119>>
        /\ req[r].view.Text = <<>>

(***************************************************************************)
(* C23: the validity window of an entry                                    *)
(***************************************************************************)
\* the validity window of the entry e of the Reference ref, with zero as
\* the only timestamp that sets no bound
Window(e, ref) ==
    /\ e.NotValidBefore =
          IF ref.NotValidBeforeUnixMicro = 0 THEN <<>>
          ELSE <<UnixMicro(ref.NotValidBeforeUnixMicro)>>
    /\ e.NotValidAfter =
          IF ref.NotValidAfterUnixMicro = 0 THEN <<>>
          ELSE <<UnixMicro(ref.NotValidAfterUnixMicro)>>

\* C23: NotValidBefore (NotValidAfter) of the entry of a resolved Reference
\* is absent exactly when the not-valid-before (not-valid-after) timestamp
\* of the Reference is zero, and is that timestamp as a time otherwise: in
\* the entry of a request's reference text, and in the entries of a directory.
C23_Window ==
    \A r \in Requests : Answered(r) =>
        /\ (Decodes(req[r].eps) /\ req[r].view.EP.Err = "") =>
              Window(req[r].view.EP, Reference(req[r].eps))
        /\ DirDecoded(req[r].view) =>
              \A i \in 1..Len(req[r].view.DirContent) :
                  req[r].view.DirContent[i].Err = "" =>
                      Window(req[r].view.DirContent[i],
                             Deref(Declared(req[r].view)[i].Ep))

\* the Reference that was valid until one microsecond before the epoch,
\* resolved into an entry with no NotValidAfter
C23_Witness ==
    \E r \in Requests :
        /\ Answered(r)
        /\ req[r].eps = toEPString(expiredEP)
        /\ Decodes(req[r].eps)
        /\ Reference(req[r].eps).NotValidAfterUnixMicro < 0
        /\ req[r].view.EP.Err = ""
        /\ req[r].view.EP.NotValidAfter = <<>>

(***************************************************************************)
(* C24: the client of the tree view (templates/ep-detail.html, lines       *)
(* 250-328), which reads the view of /api/ep/ as JSON                      *)
(***************************************************************************)
\* lines 237-241, json.NewEncoder(w).Encode(v): the view as the client reads
\* it.  A nil slice is written as null (here <<>>) and a slice with elements
\* as an array (here the sequence that holds it alone); the strings and the
\* booleans read as they were written.
jsonOf(v) ==
    [v EXCEPT !.DirContent = IF v.DirContent = <<>> THEN <<>> ELSE <<v.DirContent>>]

\* $("<div>").text(s).html(): the text s as HTML
HtmlEscape(s) ==
    Concat([i \in 1..Len(s) |->
        IF s[i] = 38 THEN <<38, 97, 109, 112, 59>>          \* "&amp;"
        ELSE IF s[i] = 60 THEN <<38, 108, 116, 59>>         \* "&lt;"
        ELSE IF s[i] = 62 THEN <<38, 103, 116, 59>>         \* "&gt;"
        ELSE <<s[i]>>])

\* errorNode: a disabled node with the text "Error: " and err
errorNode(err) ==
    [error |-> err, id |-> <<>>, text |-> <<>>, children |-> FALSE,
     icon |-> "exclamation-sign", disabled |-> TRUE]

\* epNode: the node of an entry
epNode(item) ==
    IF item.Err # "" THEN errorNode(item.Err)
    ELSE [error |-> "", id |-> item.Str, text |-> HtmlEscape(item.Name),
          children |-> (item.IsDir \/ item.IsLink),
          icon |-> IF item.IsDir THEN "" ELSE IF item.IsLink THEN "link" ELSE "file",
          disabled |-> FALSE]

\* "⇘ (link target)"
LinkTargetName ==
    <<226, 135, 152, 32, 40, 108, 105, 110, 107, 32, 116, 97, 114, 103, 101, 116, 41>>

\* the nodes of the entries of items that f selects, in their order
nodesOf(items, f(_)) ==
    LET sel == SelectSeq(items, f) IN [i \in 1..Len(sel) |-> epNode(sel[i])]

\* convertToJsTree: the nodes it returns, or the TypeError it throws where
\* it calls forEach on null
convertToJsTree(data) ==
    IF data.ContentErr # "" THEN [threw |-> FALSE, nodes |-> <<errorNode(data.ContentErr)>>]
    ELSE IF data.EP.Err # "" THEN [threw |-> FALSE, nodes |-> <<errorNode(data.EP.Err)>>]
    ELSE IF data.EP.IsLink
    THEN [threw |-> FALSE, nodes |-> <<epNode([data.Link EXCEPT !.Name = LinkTargetName])>>]
    ELSE IF ~data.EP.IsDir THEN [threw |-> FALSE, nodes |-> <<>>]
    ELSE IF data.DirErr # "" THEN [threw |-> FALSE, nodes |-> <<errorNode(data.DirErr)>>]
    ELSE IF data.DirContent = <<>> THEN [threw |-> TRUE, nodes |-> <<>>]
    ELSE [threw |-> FALSE,
          nodes |-> nodesOf(data.DirContent[1], LAMBDA it : it.IsDir)
                    \o nodesOf(data.DirContent[1], LAMBDA it : ~it.IsDir /\ it.IsLink)
                    \o nodesOf(data.DirContent[1], LAMBDA it : ~it.IsDir /\ ~it.IsLink)]

\* the group of an entry: directories, then links, then the other entries
GroupOf(item) == IF item.IsDir THEN 0 ELSE IF item.IsLink THEN 1 ELSE 2

\* the place of entry i of items in the list grouped as above, with the
\* order of the entries kept inside each group
PlaceOf(items, i) ==
    Cardinality({j \in 1..Len(items) : GroupOf(items[j]) < GroupOf(items[i])})
    + Cardinality({j \in 1..i : GroupOf(items[j]) = GroupOf(items[i])})

\* the view of a request to /api/ep/ that read a directory
TreeOfDir(r) ==
    /\ Answered(r) /\ req[r].route = RouteAPI
    /\ req[r].view.EP.IsDir /\ ~req[r].view.EP.IsLink

\* C24: convertToJsTree of a directory view returns one error node when
\* ContentErr, EP.Err or DirErr is set, and otherwise one node for each entry
\* of DirContent and no other: the directories first, then the links, then
\* the other entries, each group in the order of DirContent.
C24_Tree ==
    \A r \in Requests : TreeOfDir(r) =>
        LET v == req[r].view
            tree == convertToJsTree(jsonOf(req[r].view))
        IN  /\ ~tree.threw
            /\ IF v.ContentErr # "" \/ v.EP.Err # "" \/ v.DirErr # ""
               THEN Len(tree.nodes) = 1 /\ tree.nodes[1].error # ""
               ELSE /\ Len(tree.nodes) = Len(v.DirContent)
                    /\ \A i \in 1..Len(v.DirContent) :
                          tree.nodes[PlaceOf(v.DirContent, i)] = epNode(v.DirContent[i])

\* the view of the directory with no entries, which has no DirContent
C24_Witness ==
    \E r \in Requests :
        /\ TreeOfDir(r)
        /\ req[r].eps = toEPString(emptyDirEP)
        /\ Read(req[r].view) /\ req[r].view.DirErr = ""
        /\ req[r].view.DirContent = <<>>
        /\ convertToJsTree(jsonOf(req[r].view)).threw

(***************************************************************************)
(* C25: DirErr and DirContent                                              *)
(***************************************************************************)
\* C25 (as stated): a view with a DirErr has no DirContent.
C25_Original ==
    \A r \in Requests :
        (Answered(r) /\ req[r].view.DirErr # "") => req[r].view.DirContent = <<>>

\* C25: a view with a DirErr is the view of a directory whose content was
\* read, and its DirContent holds the entries that were decoded before the
\* point of failure, in their order: none where the content fails before its
\* first entry, and every entry of the root directory where the failure
\* follows them.
C25_Partial ==
    \A r \in Requests : (Answered(r) /\ req[r].view.DirErr # "") =>
        LET v == req[r].view
        IN  /\ DirRead(v) /\ ~DirDecoded(v)
            /\ Len(v.DirContent) = Len(Declared(v))
            /\ \A i \in 1..Len(v.DirContent) :
                  v.DirContent[i].Err = "" =>
                      /\ v.DirContent[i].Name = Declared(v)[i].Name
                      /\ v.DirContent[i].EP = Declared(v)[i].Ep
            /\ v.EP.BN[1] = brokenDirEP.BlobName => v.DirContent = <<>>
            /\ v.EP.BN[1] = tornDirEP.BlobName =>
                  [i \in 1..Len(v.DirContent) |-> v.DirContent[i].Name] =
                      [i \in 1..Len(RootDir.Entries) |-> RootDir.Entries[i].Name]

\* the view of the directory whose content breaks off after its entries:
\* the error and the entries
C25_Witness ==
    \E r \in Requests :
        /\ Answered(r)
        /\ req[r].eps = toEPString(tornDirEP)
        /\ req[r].view.DirErr = ErrParse
        /\ Len(req[r].view.DirContent) = Len(RootDir.Entries)
        /\ req[r].view.DirContent[1].Name = Name(116)

(***************************************************************************)
(* C26: a directory entry that does not resolve                            *)
(***************************************************************************)
\* whether the Reference of the declared entry e resolves
Resolves(e) == BlobNameFromBytes(Deref(e.Ep).BlobName).err = ""

\* the entry listed for the declared entry e in a directory that holds
\* nothing else
ListedAlone(v, e) ==
    dirPayload(v, [err |-> "", msg |-> [EmptyDirectory EXCEPT !.Entries = <<e>>]]).DirContent[1]

\* C26: in the view of a directory that decodes and declares an entry whose
\* Reference does not resolve, DirErr and ContentErr are empty, DirContent
\* has one entry per declared entry, the entry at the place of one that does
\* not resolve carries its Err and nothing else (an error node in the tree),
\* and every other entry is the one listed for it in a directory of its own.
C26_Unresolved ==
    \A r \in Requests :
        (/\ Answered(r) /\ DirDecoded(req[r].view)
         /\ \E i \in 1..Len(Declared(req[r].view)) : ~Resolves(Declared(req[r].view)[i])) =>
            LET v == req[r].view
            IN  /\ v.DirErr = "" /\ v.ContentErr = ""
                /\ Len(v.DirContent) = Len(Declared(v))
                /\ \A i \in 1..Len(v.DirContent) :
                      IF Resolves(Declared(v)[i])
                      THEN /\ v.DirContent[i] = ListedAlone(v, Declared(v)[i])
                           /\ v.DirContent[i].Err = ""
                           /\ v.DirContent[i].Name = Declared(v)[i].Name
                      ELSE /\ v.DirContent[i] =
                                [ZeroParsedEP EXCEPT !.Err = ErrInvalidBlobName]
                           /\ epNode(v.DirContent[i]) = errorNode(ErrInvalidBlobName)

\* the view of the directory with an entry that has no Entrypoint between
\* two that have: the directory "d", the error, the text file "t"
C26_Witness ==
    \E r \in Requests :
        /\ Answered(r) /\ DirDecoded(req[r].view)
        /\ req[r].eps = toEPString(oddDirEP)
        /\ ~Resolves(Declared(req[r].view)[2])
        /\ Len(req[r].view.DirContent) = 3
        /\ req[r].view.DirContent[1].EP = <<brokenDirEP>>
        /\ req[r].view.DirContent[2].Err = ErrInvalidBlobName
        /\ req[r].view.DirContent[3].EP = <<textEP>>
        /\ req[r].view.DirContent[3].Name = Name(116)

=============================================================================
